---- MODULE Spec2Model ----
(***************************************************************************)
(* A model of geneparse: the Variant / Genotypes records of core.py, the   *)
(* in-memory reader, the Extractor, the merge-join of two genotype streams *)
(* and the seek index of a flat file.                                      *)
(*                                                                         *)
(* The specifications of the module:                                       *)
(*   Spec        a reader, an Extractor over it and the records a caller   *)
(*               holds and mutates;                                        *)
(*   ReaderSpec  a caller querying a DictBasedReader directly;             *)
(*   ConcSpec    two extractions running _get_variant_silent concurrently; *)
(*   JoinSpec    match_genotype_iterators with its two worker processes;   *)
(*   VariantSpec two Variants: construction, comparison, complementing;    *)
(*   GenoSpec    one Genotypes record under flip_coded and code_minor;     *)
(*   GenoEqSpec  two Genotypes records compared;                           *)
(*   IndexSpec   the seek index of a flat file: built, written, read back; *)
(*   SplitSpec   a SplitChromosomeReader: construction and routed queries; *)
(*   Impute2Spec an Impute2Reader: built, looked up, iterated, closed.     *)
(***************************************************************************)
EXTENDS Integers, Sequences, FiniteSets, TLC

VARIABLES
    \* ---- Spec: reader, extractor, caller ----
    vheap,          \* Variant objects: id -> [name, chrom, pos, alleles]
    store,          \* DictBasedReader._dict, in dict order: <<[name, g]>>
    split,          \* the parser is a SplitChromosomeReader over chromosome "1"
    names,          \* Extractor.names  (None or a sequence of names)
    variants,       \* Extractor.variants (None or a sequence of Variant ids)
    epc,            \* position of the Extractor / its generator
    ei,             \* index of the name / variant being processed
    hits,           \* the hits of the current variant not yet yielded
    flip_strand,    \* local flip_strand of iter_genotypes
    nqueries,       \* get_variant_genotypes calls made for the current variant
    out,            \* the Genotypes records the caller holds
    exc,            \* the exception the Extractor raised, or "" 
    LOG_NOT_FOUND,  \* config.LOG_NOT_FOUND
    log0,           \* LOG_NOT_FOUND when the extraction started
    \* ---- ConcSpec: two concurrent _get_variant_silent calls ----
    tpc,            \* thread -> position in _get_variant_silent
    prev_log,       \* thread -> its local prev_log
    tleft,          \* thread -> lookups still to do
    \* ---- JoinSpec: match_genotype_iterators ----
    sa, sb,         \* the two input streams (sequences of Variants)
    chan,           \* worker -> items put on its queue and not yet taken
    wput,           \* worker -> number of queue.put calls done
    wterm,          \* worker -> the process has terminated
    pc,             \* position of the coordinating generator
    cur_a, cur_b,   \* its current records (index in the stream, or None)
    yielded,        \* the pairs yielded so far
    joined,         \* the workers joined so far
    \* ---- VariantSpec: two Variants ----
    raw,            \* the constructor arguments of the two Variants
    var,            \* the two Variant objects, once constructed
    vops,           \* the complement operations applied to the first one
    veq,            \* the result of var[1] == var[2], once evaluated
    \* ---- GenoSpec, GenoEqSpec: Genotypes records on their own ----
    gin,            \* the constructor arguments of the records
    grec,           \* the Genotypes records, once constructed
    gops,           \* the operations applied to the first record
    gprev,          \* the first record before the last operation
    geq,            \* the outcome of grec[1] == grec[2], once evaluated
    \* ---- IndexSpec: the seek index of a data file ----
    ifile,          \* the data file: its lines as given, and its bytes
    ixdisk,         \* the index file next to it (".idx"), if any
    built,          \* the index generate_index returned last
    loaded,         \* the index read_index / get_index returned last
    icall,          \* the last function called
    ixerr,          \* the error it raised, or ""
    inflated,       \* it called zlib.decompress
    iread,          \* the last line read after a seek to an offset of the index
    \* ---- SplitSpec: a SplitChromosomeReader over DictBasedReaders ----
    subs,           \* chrom_to_reader in dict order: key, samples, variants held
    comp,           \* the composer: not built, built, or its constructor raised
    sq,             \* the last query on the composer and its outcome
    \* ---- Impute2Spec: an Impute2Reader over an IMPUTE2 file ----
    ilines,         \* the lines of the IMPUTE2 file
    idxfile,        \* what sits at its ".idx" path when the reader is built
    rdr,            \* the reader: its state, file handle, index, file position
    gen,            \* the generator of the last iter_genotypes() call
    lk              \* the last lookup on the reader and its outcome

exVars   == <<vheap, store, split, names, variants, epc, ei, hits, flip_strand,
              nqueries, out, exc, LOG_NOT_FOUND, log0>>
concVars == <<tpc, prev_log, tleft>>
joinVars == <<sa, sb, chan, wput, wterm, pc, cur_a, cur_b, yielded, joined>>
varVars  == <<raw, var, vops, veq>>
genoVars == <<gin, grec, gops, gprev, geq>>
ixVars   == <<ifile, ixdisk, built, loaded, icall, ixerr, inflated, iread>>
splitVars == <<subs, comp, sq>>
impVars  == <<ilines, idxfile, rdr, gen, lk>>
libVars  == <<varVars, genoVars, ixVars, splitVars, impVars>>
vars     == <<exVars, concVars, joinVars, libVars>>

(***************************************************************************)
(* Bounds of the model.                                                    *)
(***************************************************************************)
MaxLen    == 2   \* longest input stream of the merge-join
PipeCap   == 1   \* items the pipe under a multiprocessing.Queue holds
MaxReq    == 2   \* most requested variants
MaxOut    == 2   \* most records the caller holds
MaxCalls  == 2   \* lookups per thread in ConcSpec
MaxAlleles == 2  \* most alleles given to the Variant constructor
MaxOps    == 2   \* most operations applied to one object in a row
Precision == 3   \* significant bits of a dosage (numpy float64 keeps 53)
FracBits  == 3   \* a dosage is a multiple of 2^-FracBits
MaxDoses  == 5   \* longest dosage array of a record handled alone
MaxSamples == 2  \* longest dosage array of two records compared
MaxLines  == 2   \* most lines of an indexed file
MaxReaders == 2  \* most sub-readers of a SplitChromosomeReader

(***************************************************************************)
(* Strings.  An allele is a sequence of one-character strings, so that     *)
(* upper-casing, reversal and lexicographic order are computed, not        *)
(* assumed.                                                                *)
(***************************************************************************)
\* ASCII code of a character (the order Python's sorted() uses on str).
CharOrd(c) ==
    CASE c = "A" -> 65 [] c = "C" -> 67 [] c = "G" -> 71 [] c = "N" -> 78
      [] c = "T" -> 84 [] c = "a" -> 97 [] c = "c" -> 99 [] c = "g" -> 103
      [] c = "t" -> 116

UpperChar(c) ==
    CASE c = "a" -> "A" [] c = "c" -> "C" [] c = "g" -> "G" [] c = "t" -> "T"
      [] OTHER -> c

\* str.upper()
Upper(s) == [i \in 1..Len(s) |-> UpperChar(s[i])]

\* s < t on str: lexicographic, a proper prefix is smaller.
RECURSIVE StrLess(_, _)
StrLess(s, t) ==
    IF t = <<>> THEN FALSE
    ELSE IF s = <<>> THEN TRUE
    ELSE IF Head(s) = Head(t) THEN StrLess(Tail(s), Tail(t))
    ELSE CharOrd(Head(s)) < CharOrd(Head(t))

\* Insert x into the sorted sequence q, after the elements not greater.
RECURSIVE InsertSorted(_, _)
InsertSorted(x, q) ==
    IF q = <<>> THEN <<x>>
    ELSE IF StrLess(x, Head(q)) THEN <<x>> \o q
    ELSE <<Head(q)>> \o InsertSorted(x, Tail(q))

\* sorted(q) on a sequence of str (a stable insertion sort: same result).
RECURSIVE SortStrs(_)
SortStrs(q) ==
    IF q = <<>> THEN <<>>
    ELSE InsertSorted(q[Len(q)], SortStrs(SubSeq(q, 1, Len(q) - 1)))

Range(q) == {q[i] : i \in 1..Len(q)}


(***************************************************************************)
(* core.py: alleles, Chromosome, Variant.                                  *)
(***************************************************************************)
\* An optional value: python None, or a sequence.
PyNone  == [defined |-> FALSE, val |-> <<>>]
Some(q) == [defined |-> TRUE, val |-> q]

\* An optional tuple of alleles.
NoAlleles  == PyNone
Alleles(q) == Some(q)

\* Variant._encode_alleles
encode_alleles(iterable) ==
    IF ~iterable.defined THEN NoAlleles
    ELSE Alleles(SortStrs([i \in 1..Len(iterable.val) |-> Upper(iterable.val[i])]))

\* The translation table without the entries for G.
trans_without_g(c) ==
    CASE c = "A" -> "T" [] c = "T" -> "A" [] c = "C" -> "G"
      [] c = "a" -> "t" [] c = "t" -> "a" [] c = "c" -> "g"
      [] OTHER -> c

\* str.maketrans("ATGCatgc", "TACGtacg")
trans(c) ==
    CASE c = "A" -> "T" [] c = "T" -> "A" [] c = "G" -> "C" [] c = "C" -> "G"
      [] c = "a" -> "t" [] c = "t" -> "a" [] c = "g" -> "c" [] c = "c" -> "g"
      [] OTHER -> c

\* core.complement_alleles: translate, then reverse the string.
complement_alleles(s) == [i \in 1..Len(s) |-> trans(s[Len(s) + 1 - i])]

\* Chromosome.__eq__ comparing the names only.
ChromEqByName(c, d) == c = d

\* Chromosome.__eq__: the unknown chromosome "?" equals nothing.
ChromEq(c, d) == IF c = "?" \/ d = "?" THEN FALSE ELSE c = d

\* Variant.__init__ (chromosomes are given in their encoded form).
Variant(name, chrom, pos, alleles) ==
    [name |-> name, chrom |-> chrom, pos |-> pos,
     alleles |-> encode_alleles(alleles)]

\* Variant.complementary_strand_copy; alleles must be defined (the loop over
\* None raises TypeError, which the callers below model).
complementary_strand_copy(v) ==
    Variant(v.name, v.chrom, v.pos,
            Alleles([i \in 1..Len(v.alleles.val) |->
                        complement_alleles(v.alleles.val[i])]))

\* alleles_ambiguous knowing the C/G pair only.
alleles_ambiguous_cg_only(v) == v.alleles = Alleles(<<<<"C">>, <<"G">>>>)

\* Variant.alleles_ambiguous
alleles_ambiguous(v) ==
    v.alleles = Alleles(<<<<"C">>, <<"G">>>>) \/ v.alleles = Alleles(<<<<"A">>, <<"T">>>>)

\* Variant.locus_eq
locus_eq(v, w) == ChromEq(v.chrom, w.chrom) /\ v.pos = w.pos

\* Variant.__eq__ asking for more than two shared alleles.
VariantEqStrictOverlap(v, w) ==
    IF ~v.alleles.defined \/ ~w.alleles.defined THEN locus_eq(v, w)
    ELSE /\ locus_eq(v, w)
         /\ Cardinality(Range(v.alleles.val) \cap Range(w.alleles.val)) > 2

\* Variant.__eq__
VariantEq(v, w) ==
    IF ~v.alleles.defined \/ ~w.alleles.defined THEN locus_eq(v, w)
    ELSE /\ locus_eq(v, w)
         /\ Cardinality(Range(v.alleles.val) \cap Range(w.alleles.val)) >= 2

(***************************************************************************)
(* core.py: Genotypes.  A record refers to its Variant object by id, so    *)
(* that two records can share one Variant.                                 *)
(***************************************************************************)
\* A missing dosage (numpy nan).
NaN == -1

\* Dosages are floating-point numbers.  A dosage is held as its number of
\* units of 2^-FracBits; the values that exist are those with at most
\* Precision significant bits, and every arithmetic operation rounds its
\* exact result to the nearest such value, ties to the even significand.
RECURSIVE Pow2(_)
Pow2(n) == IF n = 0 THEN 1 ELSE 2 * Pow2(n - 1)

RECURSIVE FloorLog2(_)
FloorLog2(x) == IF x < 2 THEN 0 ELSE 1 + FloorLog2(x \div 2)

One == Pow2(FracBits)
Two == 2 * One

\* The float nearest to num / den (in units).
float_round(num, den) ==
    LET ip   == num \div den
        e    == FloorLog2(ip)
        step == IF ip = 0 \/ e < Precision THEN 1 ELSE Pow2(e - Precision + 1)
        k    == num \div (den * step)
        rem  == num - k * den * step
    IN  IF 2 * rem < den * step THEN k * step
        ELSE IF 2 * rem > den * step THEN (k + 1) * step
        ELSE IF k % 2 = 0 THEN k * step
        ELSE (k + 1) * step

\* 2 - d on one element of a dosage array; 2 - nan is nan.
two_minus(d) == IF d = NaN THEN NaN ELSE float_round(Two - d, 1)

\* Genotypes.__init__: the record, given that the checks on reference and
\* coded pass (GenotypesInitOK).
Genotypes(variant, genotypes, reference, coded, multiallelic) ==
    [variant |-> variant, genotypes |-> genotypes, reference |-> Upper(reference),
     coded |-> Upper(coded), multiallelic |-> multiallelic]

\* The two checks of Genotypes.__init__ that raise ValueError: "variant.alleles
\* and (allele not in variant.alleles)"; None and the empty tuple are falsy.
GenotypesInitOK(v, reference, coded) ==
    (v.alleles.defined /\ v.alleles.val # <<>>) =>
        /\ Upper(reference) \in Range(v.alleles.val)
        /\ Upper(coded) \in Range(v.alleles.val)

\* Genotypes.copy: a new array, the same Variant object.
copy(g) == Genotypes(g.variant, g.genotypes, g.reference, g.coded, g.multiallelic)

\* Genotypes.flip_coded
flip_coded(g) ==
    [g EXCEPT !.genotypes = [i \in 1..Len(g.genotypes) |-> two_minus(g.genotypes[i])],
              !.reference = g.coded,
              !.coded = g.reference]

\* Genotypes.flip_strand, the part on the record itself.
flip_strand_record(g) ==
    [g EXCEPT !.reference = complement_alleles(g.reference),
              !.coded = complement_alleles(g.coded)]

\* Variant.complement_alleles, in place on the Variant object; on alleles
\* None the loop raises TypeError and the object is left as it was.
complement_in_place(v) ==
    IF ~v.alleles.defined THEN v
    ELSE [v EXCEPT !.alleles =
            encode_alleles(Alleles([i \in 1..Len(v.alleles.val) |->
                                       complement_alleles(v.alleles.val[i])]))]

\* The sum numpy computes for a short array: left to right, each addition
\* rounded.
RECURSIVE SumSeq(_)
SumSeq(q) ==
    IF q = <<>> THEN 0
    ELSE float_round(SumSeq(SubSeq(q, 1, Len(q) - 1)) + q[Len(q)], 1)

\* The dosages nanmean counts.
Called(g) == SelectSeq(g.genotypes, LAMBDA d : d # NaN)

\* Genotypes.coded_freq, for a record with a called dosage:
\* np.nanmean(self.genotypes) / 2.
coded_freq(g) == float_round(float_round(SumSeq(Called(g)), Len(Called(g))), 2)

\* coded_freq() > 0.5 (nan > 0.5 is False).
coded_freq_above_half(g) ==
    /\ Called(g) # <<>>
    /\ 2 * coded_freq(g) > One

\* _np_eq comparing the arrays element by element, nan included.
np_eq_elementwise(a, b) == \A i \in DOMAIN a : a[i] # NaN /\ a[i] = b[i]

\* _np_eq on two arrays of the same length: the same elements are nan and
\* the others are equal.
np_eq(a, b) ==
    IF \E i \in DOMAIN a : (a[i] = NaN) # (b[i] = NaN) THEN FALSE
    ELSE \A i \in DOMAIN a : a[i] # NaN => a[i] = b[i]

PyBool(b) == IF b THEN "True" ELSE "False"

\* Genotypes.__eq__: "True", "False", or the RuntimeError it raises.
genotypes_eq(self, other) ==
    IF ~locus_eq(self.variant, other.variant) THEN "False"
    ELSE IF self.reference = other.reference /\ self.coded = other.coded
    THEN PyBool(np_eq(self.genotypes, other.genotypes))
    ELSE IF self.reference = other.coded /\ self.coded = other.reference
    THEN PyBool(np_eq(self.genotypes,
                      [i \in DOMAIN other.genotypes |-> two_minus(other.genotypes[i])]))
    ELSE "RuntimeError"

\* Genotypes.code_minor
code_minor(g) == IF coded_freq_above_half(g) THEN flip_coded(g) ELSE g

(***************************************************************************)
(* readers/dict_based.py: DictBasedReader, and core.SplitChromosomeReader  *)
(* over one DictBasedReader registered for chromosome "1".                 *)
(***************************************************************************)
MapSeq(q, F(_)) == [i \in 1..Len(q) |-> F(q[i])]

\* DictBasedReader.get_variant_genotypes
dict_get_variant_genotypes(variant) ==
    MapSeq(SelectSeq(store, LAMBDA e : VariantEq(vheap[e.g.variant], variant)),
           LAMBDA e : copy(e.g))

\* DictBasedReader.get_variant_by_name
get_variant_by_name(name) ==
    MapSeq(SelectSeq(store, LAMBDA e : e.name = name), LAMBDA e : copy(e.g))

\* DictBasedReader.get_variants_in_region
get_variants_in_region(chrom, start, end) ==
    MapSeq(SelectSeq(store, LAMBDA e :
                /\ ChromEq(chrom, vheap[e.g.variant].chrom)
                /\ start <= vheap[e.g.variant].pos
                /\ vheap[e.g.variant].pos <= end),
           LAMBDA e : copy(e.g))

\* DictBasedReader.iter_genotypes, run to its end.
iter_genotypes == MapSeq(store, LAMBDA e : copy(e.g))

\* The chromosomes the SplitChromosomeReader has a sub-reader for.
chrom_to_reader == {"1"}

\* parser.get_variant_genotypes(variant) raises: SplitChromosomeReader turns
\* the KeyError of an unregistered chromosome into ValueError.
get_variant_genotypes_raises(variant) ==
    split /\ \A c \in chrom_to_reader : ~ChromEq(c, variant.chrom)

\* parser.get_variant_genotypes(variant), when it does not raise.
get_variant_genotypes(variant) == dict_get_variant_genotypes(variant)

(***************************************************************************)
(* extract/extractor.py                                                    *)
(***************************************************************************)
\* _get_variant_silent(parser, variant) called with the flag at log: the
\* flag it leaves, its results and whether it raised.  There is no
\* try/finally: an exception of the lookup skips the write of prev_log.
get_variant_silent(log, variant) ==
    IF get_variant_genotypes_raises(variant)
    THEN [log |-> FALSE, results |-> <<>>, raised |-> TRUE]
    ELSE [log |-> log, results |-> get_variant_genotypes(variant), raised |-> FALSE]

\* The body of "for variant in self.variants" up to the loop over the hits:
\* the direct lookup and, without hits and for alleles that are not
\* ambiguous, the lookup of the complementary-strand copy (TypeError when
\* the alleles are None).
lookup(log, variant) ==
    LET first == get_variant_silent(log, variant) IN
    IF first.raised
    THEN [log |-> first.log, hits |-> <<>>, flip_strand |-> FALSE, raised |-> TRUE,
          nqueries |-> 1]
    ELSE IF first.results = <<>> /\ ~alleles_ambiguous(variant)
    THEN IF ~variant.alleles.defined
         THEN [log |-> first.log, hits |-> <<>>, flip_strand |-> FALSE,
               raised |-> TRUE, nqueries |-> 1]
         ELSE LET second == get_variant_silent(first.log,
                                               complementary_strand_copy(variant)) IN
              [log |-> second.log, hits |-> second.results, flip_strand |-> TRUE,
               raised |-> second.raised, nqueries |-> 2]
    ELSE [log |-> first.log, hits |-> first.results, flip_strand |-> FALSE,
          raised |-> FALSE, nqueries |-> 1]

\* rewrite_hit with the coded allele left on the reader's strand.
rewrite_hit_keeps_coded(genotype, variant) ==
    [genotype EXCEPT !.variant = variant,
                     !.reference = complement_alleles(genotype.reference)]

\* The rewriting of a hit found on the complementary strand.
rewrite_hit(genotype, variant) ==
    [genotype EXCEPT !.variant = variant,
                     !.reference = complement_alleles(genotype.reference),
                     !.coded = complement_alleles(genotype.coded)]

\* The records a reader of the model can hold, all on chromosome "1": a
\* biallelic G/T record, a triallelic record, a biallelic A/C record and a
\* record whose variant has no alleles.
CGT == <<<<"C">>, <<"G">>, <<"T">>>>
StoredPool ==
    << [name |-> "s1", v |-> Variant("s1", "1", 100, Alleles(<<<<"T">>, <<"G">>>>)),
        genotypes |-> <<Two, Two>>, reference |-> <<"G">>, coded |-> <<"T">>,
        multiallelic |-> FALSE],
       [name |-> "s2", v |-> Variant("s2", "1", 100, Alleles(CGT)),
        genotypes |-> <<0, NaN>>, reference |-> <<"C">>, coded |-> <<"G">>,
        multiallelic |-> TRUE],
       [name |-> "s3", v |-> Variant("s3", "1", 100, Alleles(<<<<"a">>, <<"C">>>>)),
        genotypes |-> <<One, Two>>, reference |-> <<"A">>, coded |-> <<"C">>,
        multiallelic |-> FALSE],
       [name |-> "s4", v |-> Variant("s4", "1", 100, NoAlleles),
        genotypes |-> <<0, One>>, reference |-> <<"A">>, coded |-> <<"C">>,
        multiallelic |-> FALSE] >>

\* The variants an extraction can ask for: non-ambiguous, ambiguous, three
\* alleles, no alleles, and one on a chromosome the readers do not hold.
RequestPool ==
    { Variant("v", "1", 100, Alleles(<<<<"A">>, <<"C">>>>)),
      Variant("v", "1", 100, Alleles(<<<<"T">>, <<"A">>>>)),
      Variant("v", "1", 100, Alleles(<<<<"A">>, <<"C">>, <<"G">>>>)),
      Variant("v", "1", 100, NoAlleles),
      Variant("v", "2", 100, Alleles(<<<<"A">>, <<"C">>>>)) }

NamePool == {"s1", "zz"}

\* The entries of pool whose index is in S, in the order of pool.
RECURSIVE Pick(_, _, _)
Pick(pool, S, i) ==
    IF i > Len(pool) THEN <<>>
    ELSE (IF i \in S THEN <<pool[i]>> ELSE <<>>) \o Pick(pool, S, i + 1)

RECURSIVE SeqsUpTo(_, _)
SeqsUpTo(S, n) ==
    IF n = 0 THEN {<<>>}
    ELSE SeqsUpTo(S, n - 1) \cup
         { Append(q, x) : q \in {r \in SeqsUpTo(S, n - 1) : Len(r) = n - 1}, x \in S }

\* A reader holding the records chosen, each constructed by Genotypes.__init__
\* on its own Variant object (ids 1..Len(chosen)); then the Variant objects of
\* the request (reqs).
ReaderInit(chosen, reqs) ==
    /\ \A i \in 1..Len(chosen) :
          GenotypesInitOK(chosen[i].v, chosen[i].reference, chosen[i].coded)
    /\ vheap = [i \in 1..Len(chosen) |-> chosen[i].v] \o reqs
    /\ store = [i \in 1..Len(chosen) |->
                  [name |-> chosen[i].name,
                   g |-> Genotypes(i, chosen[i].genotypes, chosen[i].reference,
                                   chosen[i].coded, chosen[i].multiallelic)]]

ExInit ==
    /\ \E S \in SUBSET (1..Len(StoredPool)) :
       \E vs \in {PyNone} \cup {Some(q) : q \in SeqsUpTo(RequestPool, MaxReq) \ {<<>>}} :
          /\ ReaderInit(Pick(StoredPool, S, 1), vs.val)
          /\ variants = IF vs.defined
                        THEN Some([i \in 1..Len(vs.val) |-> Cardinality(S) + i])
                        ELSE PyNone
    /\ names \in {PyNone, Some(<<"zz", "s1">>)}
    /\ split \in BOOLEAN
    /\ LOG_NOT_FOUND \in BOOLEAN
    /\ log0 = LOG_NOT_FOUND
    /\ epc = "new" /\ ei = 0 /\ hits = <<>> /\ flip_strand = FALSE
    /\ nqueries = 0 /\ out = <<>> /\ exc = ""

\* Extractor.__init__(parser, names, variants)
ExtractorInit ==
    /\ epc = "new"
    /\ IF ~names.defined /\ ~variants.defined
       THEN epc' = "raised" /\ exc' = "ValueError: init"
       ELSE epc' = "ready" /\ exc' = exc
    /\ UNCHANGED <<vheap, store, split, names, variants, ei, hits, flip_strand,
                   nqueries, out, LOG_NOT_FOUND, log0>>
    /\ UNCHANGED <<concVars, joinVars, libVars>>

\* The first next() on Extractor.iter_genotypes().
IterStart ==
    /\ epc = "ready"
    /\ epc' = IF names.defined THEN "by_names" ELSE "by_variants"
    /\ ei' = 1
    /\ log0' = LOG_NOT_FOUND
    /\ UNCHANGED <<vheap, store, split, names, variants, hits, flip_strand,
                   nqueries, out, exc, LOG_NOT_FOUND>>
    /\ UNCHANGED <<concVars, joinVars, libVars>>

\* yield from self.parser.iter_variants_by_names(self.names), one name: the
\* method is GenotypesReader's, which SplitChromosomeReader does not inherit.
IterName ==
    /\ epc = "by_names"
    /\ ei <= Len(names.val)
    /\ IF split
       THEN epc' = "raised" /\ exc' = "AttributeError" /\ UNCHANGED <<ei, out>>
       ELSE /\ out' = IF get_variant_by_name(names.val[ei]) = <<>> THEN out
                       ELSE get_variant_by_name(names.val[ei])
            /\ ei' = ei + 1
            /\ UNCHANGED <<epc, exc>>
    /\ UNCHANGED <<vheap, store, split, names, variants, hits, flip_strand,
                   nqueries, LOG_NOT_FOUND, log0>>
    /\ UNCHANGED <<concVars, joinVars, libVars>>

\* The names are exhausted: on to "if self.by_variants".
IterNamesEnd ==
    /\ epc = "by_names"
    /\ ei > Len(names.val)
    /\ epc' = IF variants.defined THEN "by_variants" ELSE "done"
    /\ ei' = 1
    /\ UNCHANGED <<vheap, store, split, names, variants, hits, flip_strand,
                   nqueries, out, exc, LOG_NOT_FOUND, log0>>
    /\ UNCHANGED <<concVars, joinVars, libVars>>

\* One requested variant: the lookups, up to "for genotype in hits".
IterVariant ==
    /\ epc = "by_variants"
    /\ ei <= Len(variants.val)
    /\ LET r == lookup(LOG_NOT_FOUND, vheap[variants.val[ei]]) IN
         /\ LOG_NOT_FOUND' = r.log
         /\ hits' = r.hits
         /\ flip_strand' = r.flip_strand
         /\ nqueries' = r.nqueries
         /\ IF r.raised
            THEN /\ epc' = "raised"
                 /\ exc' = IF get_variant_genotypes_raises(vheap[variants.val[ei]])
                           THEN "ValueError" ELSE "TypeError"
            ELSE epc' = "yielding" /\ exc' = exc
    /\ UNCHANGED <<vheap, store, split, names, variants, ei, out, log0>>
    /\ UNCHANGED <<concVars, joinVars, libVars>>

\* for genotype in hits: ... yield genotype.  The caller's loop variable now
\* holds this record; the record of the previous round is dropped.
YieldHit ==
    /\ epc = "yielding"
    /\ hits # <<>>
    /\ out' = << IF flip_strand THEN rewrite_hit(Head(hits), variants.val[ei])
                 ELSE Head(hits) >>
    /\ hits' = Tail(hits)
    /\ UNCHANGED <<vheap, store, split, names, variants, epc, ei, flip_strand,
                   nqueries, exc, LOG_NOT_FOUND, log0>>
    /\ UNCHANGED <<concVars, joinVars, libVars>>

\* The hits are exhausted (or there were none: the warning): next variant.
NextVariant ==
    /\ epc = "yielding"
    /\ hits = <<>>
    /\ epc' = "by_variants"
    /\ ei' = ei + 1
    /\ UNCHANGED <<vheap, store, split, names, variants, hits, flip_strand,
                   nqueries, out, exc, LOG_NOT_FOUND, log0>>
    /\ UNCHANGED <<concVars, joinVars, libVars>>

\* The end of "for variant in self.variants": the generator returns.
IterEnd ==
    /\ epc = "by_variants"
    /\ ei > Len(variants.val)
    /\ epc' = "done"
    /\ UNCHANGED <<vheap, store, split, names, variants, ei, hits, flip_strand,
                   nqueries, out, exc, LOG_NOT_FOUND, log0>>
    /\ UNCHANGED <<concVars, joinVars, libVars>>

\* The caller applies flip_coded to a record it was handed.
CallerFlipCoded(k) ==
    /\ out' = [out EXCEPT ![k] = flip_coded(@)]
    /\ UNCHANGED <<vheap, store, split, names, variants, epc, ei, hits,
                   flip_strand, nqueries, exc, LOG_NOT_FOUND, log0>>
    /\ UNCHANGED <<concVars, joinVars, libVars>>

\* The caller applies flip_strand: reference and coded are complemented,
\* then the record's Variant object is complemented in place.
CallerFlipStrand(k) ==
    /\ out' = [out EXCEPT ![k] = flip_strand_record(@)]
    /\ vheap' = [vheap EXCEPT ![out[k].variant] = complement_in_place(@)]
    /\ UNCHANGED <<store, split, names, variants, epc, ei, hits,
                   flip_strand, nqueries, exc, LOG_NOT_FOUND, log0>>
    /\ UNCHANGED <<concVars, joinVars, libVars>>

\* The caller applies code_minor.
CallerCodeMinor(k) ==
    /\ out' = [out EXCEPT ![k] = code_minor(@)]
    /\ UNCHANGED <<vheap, store, split, names, variants, epc, ei, hits,
                   flip_strand, nqueries, exc, LOG_NOT_FOUND, log0>>
    /\ UNCHANGED <<concVars, joinVars, libVars>>

Next ==
    \/ ExtractorInit
    \/ IterStart
    \/ IterName
    \/ IterNamesEnd
    \/ IterVariant
    \/ YieldHit
    \/ NextVariant
    \/ IterEnd
    \/ \E k \in DOMAIN out : CallerFlipCoded(k)
    \/ \E k \in DOMAIN out : CallerFlipStrand(k)
    \/ \E k \in DOMAIN out : CallerCodeMinor(k)

(***************************************************************************)
(* A caller that queries a DictBasedReader directly and mutates what it    *)
(* is handed (ReaderSpec).                                                 *)
(***************************************************************************)
ReaderSpecInit ==
    /\ \E S \in SUBSET (1..Len(StoredPool)) : ReaderInit(Pick(StoredPool, S, 1), <<>>)
    /\ names = PyNone /\ variants = PyNone
    /\ split = FALSE
    /\ LOG_NOT_FOUND = TRUE /\ log0 = TRUE
    /\ epc = "reader" /\ ei = 0 /\ hits = <<>> /\ flip_strand = FALSE
    /\ nqueries = 0 /\ out = <<>> /\ exc = ""

\* The caller keeps the records of a reader call (it holds at most MaxOut).
Handed(results) ==
    /\ epc = "reader"
    /\ results # <<>>
    /\ Len(out) + Len(results) <= MaxOut
    /\ out' = out \o results
    /\ UNCHANGED <<vheap, store, split, names, variants, epc, ei, hits,
                   flip_strand, nqueries, exc, LOG_NOT_FOUND, log0>>
    /\ UNCHANGED <<concVars, joinVars, libVars>>

ReaderGetVariantGenotypes == \E q \in RequestPool : Handed(dict_get_variant_genotypes(q))

ReaderGetVariantByName == \E name \in NamePool : Handed(get_variant_by_name(name))

ReaderGetVariantsInRegion ==
    \E chrom \in {"1", "2"}, start \in {1, 150}, end \in {100, 300} :
        Handed(get_variants_in_region(chrom, start, end))

ReaderIterGenotypes == Handed(iter_genotypes)

ReaderNext ==
    \/ ReaderGetVariantGenotypes
    \/ ReaderGetVariantByName
    \/ ReaderGetVariantsInRegion
    \/ ReaderIterGenotypes
    \/ \E k \in DOMAIN out : CallerFlipCoded(k)
    \/ \E k \in DOMAIN out : CallerFlipStrand(k)
    \/ \E k \in DOMAIN out : CallerCodeMinor(k)

(***************************************************************************)
(* Two extractions running _get_variant_silent concurrently (ConcSpec),    *)
(* interleaved between its four statements.                                *)
(***************************************************************************)
Threads == {1, 2}

ConcInit ==
    /\ LOG_NOT_FOUND \in BOOLEAN
    /\ log0 = LOG_NOT_FOUND
    /\ tpc = [t \in Threads |-> "read"]
    /\ prev_log = [t \in Threads |-> TRUE]
    /\ tleft \in [Threads -> 1..MaxCalls]
    /\ vheap = <<>> /\ store = <<>> /\ split = FALSE
    /\ names = PyNone /\ variants = PyNone
    /\ epc = "idle" /\ ei = 0 /\ hits = <<>> /\ flip_strand = FALSE
    /\ nqueries = 0 /\ out = <<>> /\ exc = ""

ConcFrame ==
    /\ UNCHANGED <<vheap, store, split, names, variants, epc, ei, hits,
                   flip_strand, nqueries, out, exc, log0>>
    /\ UNCHANGED <<joinVars, libVars>>

\* prev_log = config.LOG_NOT_FOUND
SilentRead(t) ==
    /\ tpc[t] = "read"
    /\ prev_log' = [prev_log EXCEPT ![t] = LOG_NOT_FOUND]
    /\ tpc' = [tpc EXCEPT ![t] = "set"]
    /\ UNCHANGED <<LOG_NOT_FOUND, tleft>>
    /\ ConcFrame

\* config.LOG_NOT_FOUND = False
SilentSet(t) ==
    /\ tpc[t] = "set"
    /\ LOG_NOT_FOUND' = FALSE
    /\ tpc' = [tpc EXCEPT ![t] = "lookup"]
    /\ UNCHANGED <<prev_log, tleft>>
    /\ ConcFrame

\* results = parser.get_variant_genotypes(variant)
SilentLookup(t) ==
    /\ tpc[t] = "lookup"
    /\ tpc' = [tpc EXCEPT ![t] = "restore"]
    /\ UNCHANGED <<LOG_NOT_FOUND, prev_log, tleft>>
    /\ ConcFrame

\* config.LOG_NOT_FOUND = prev_log; return results
SilentRestore(t) ==
    /\ tpc[t] = "restore"
    /\ LOG_NOT_FOUND' = prev_log[t]
    /\ tleft' = [tleft EXCEPT ![t] = @ - 1]
    /\ tpc' = [tpc EXCEPT ![t] = IF tleft[t] = 1 THEN "done" ELSE "read"]
    /\ UNCHANGED prev_log
    /\ ConcFrame

ConcNext ==
    \/ \E t \in Threads : SilentRead(t)
    \/ \E t \in Threads : SilentSet(t)
    \/ \E t \in Threads : SilentLookup(t)
    \/ \E t \in Threads : SilentRestore(t)

(***************************************************************************)
(* match_genotype_iterators.py                                             *)
(***************************************************************************)
\* chrom_to_int; the streams of the model hold known chromosomes only.
chrom_to_int(chrom) ==
    CASE chrom = "1" -> 1 [] chrom = "2" -> 2 [] chrom = "X" -> 23

default_chr_comparator(chr_a, chr_b) ==
    IF chrom_to_int(chr_a) = chrom_to_int(chr_b) THEN 0
    ELSE IF chrom_to_int(chr_a) < chrom_to_int(chr_b) THEN 1 ELSE -1

compare_variants(a, b) ==
    IF VariantEq(a, b) THEN 0
    ELSE IF default_chr_comparator(a.chrom, b.chrom) # 0
         THEN default_chr_comparator(a.chrom, b.chrom)
    ELSE IF a.pos = b.pos THEN 0
    ELSE IF a.pos < b.pos THEN 1 ELSE -1

Workers == {"a", "b"}
stream(w) == IF w = "a" THEN sa ELSE sb

\* The end-of-stream sentinel fill_queue puts last (python None); a record
\* is named by its index in its stream.
EndOfStream == 0

\* The variants the streams are drawn from: three loci, one of them with
\* two allele sets that share no allele.
AC == <<<<"A">>, <<"C">>>>
GT == <<<<"G">>, <<"T">>>>
JoinPool ==
    { Variant("v", c, p, Alleles(AC)) : c \in {"1"}, p \in {1, 2} }
      \cup { Variant("v", "2", 1, Alleles(AC)), Variant("v", "1", 2, Alleles(GT)),
             Variant("v", "1", 2, NoAlleles) }

JoinInit ==
    /\ sa \in SeqsUpTo(JoinPool, MaxLen)
    /\ sb \in SeqsUpTo(JoinPool, MaxLen)
    /\ chan = [w \in Workers |-> <<>>]
    /\ wput = [w \in Workers |-> 0]
    /\ wterm = [w \in Workers |-> FALSE]
    /\ pc = "start"
    /\ cur_a = EndOfStream
    /\ cur_b = EndOfStream
    /\ yielded = <<>>
    /\ joined = {}

\* fill_queue: one queue.put of the loop, or the final queue.put(None).  The
\* queue is unbounded (Queue()), so the put never waits.
WorkerPut(w) ==
    /\ pc # "start"
    /\ wput[w] <= Len(stream(w))
    /\ chan' = [chan EXCEPT ![w] =
                  Append(@, IF wput[w] < Len(stream(w)) THEN wput[w] + 1
                            ELSE EndOfStream)]
    /\ wput' = [wput EXCEPT ![w] = @ + 1]
    /\ UNCHANGED <<exVars, concVars, libVars>>
    /\ UNCHANGED <<sa, sb, wterm, pc, cur_a, cur_b, yielded, joined>>

\* End of the worker process.  A process that has put items on a
\* multiprocessing.Queue ends only once its feeder thread has written them
\* all to the pipe, which holds PipeCap items the reader has not taken.
WorkerExit(w) ==
    /\ wput[w] = Len(stream(w)) + 1
    /\ ~wterm[w]
    /\ Len(chan[w]) <= PipeCap
    /\ wterm' = [wterm EXCEPT ![w] = TRUE]
    /\ UNCHANGED <<exVars, concVars, libVars>>
    /\ UNCHANGED <<sa, sb, chan, wput, pc, cur_a, cur_b, yielded, joined>>

\* p.start() for both processes.
CoStart ==
    /\ pc = "start"
    /\ pc' = "get_a"
    /\ UNCHANGED <<exVars, concVars, libVars>>
    /\ UNCHANGED <<sa, sb, chan, wput, wterm, cur_a, cur_b, yielded, joined>>

\* cur_a = q_a.get()
CoGetFirstA ==
    /\ pc = "get_a"
    /\ chan["a"] # <<>>
    /\ cur_a' = Head(chan["a"])
    /\ chan' = [chan EXCEPT !["a"] = Tail(@)]
    /\ pc' = "get_b"
    /\ UNCHANGED <<exVars, concVars, libVars>>
    /\ UNCHANGED <<sa, sb, wput, wterm, cur_b, yielded, joined>>

\* cur_b = q_b.get()
CoGetFirstB ==
    /\ pc = "get_b"
    /\ chan["b"] # <<>>
    /\ cur_b' = Head(chan["b"])
    /\ chan' = [chan EXCEPT !["b"] = Tail(@)]
    /\ pc' = "while_b"
    /\ UNCHANGED <<exVars, concVars, libVars>>
    /\ UNCHANGED <<sa, sb, wput, wterm, cur_a, yielded, joined>>

\* while compare_variants(cur_a.variant, cur_b.variant) == -1: one test of
\* the condition and, when it holds, one q_b.get().  cur_a.variant on None
\* raises AttributeError.
CoWhileB ==
    /\ pc = "while_b"
    /\ IF cur_a = EndOfStream \/ cur_b = EndOfStream
       THEN pc' = "raised" /\ UNCHANGED <<chan, cur_b>>
       ELSE IF compare_variants(sa[cur_a], sb[cur_b]) = -1
       THEN /\ chan["b"] # <<>>
            /\ cur_b' = Head(chan["b"])
            /\ chan' = [chan EXCEPT !["b"] = Tail(@)]
            /\ pc' = IF cur_b' = EndOfStream THEN "join_a" ELSE "while_b"
       ELSE pc' = "while_a" /\ UNCHANGED <<chan, cur_b>>
    /\ UNCHANGED <<exVars, concVars, libVars>>
    /\ UNCHANGED <<sa, sb, wput, wterm, cur_a, yielded, joined>>

\* while compare_variants(cur_a.variant, cur_b.variant) == 1
CoWhileA ==
    /\ pc = "while_a"
    /\ IF compare_variants(sa[cur_a], sb[cur_b]) = 1
       THEN /\ chan["a"] # <<>>
            /\ cur_a' = Head(chan["a"])
            /\ chan' = [chan EXCEPT !["a"] = Tail(@)]
            /\ pc' = IF cur_a' = EndOfStream THEN "join_a" ELSE "while_a"
       ELSE pc' = "match" /\ UNCHANGED <<chan, cur_a>>
    /\ UNCHANGED <<exVars, concVars, libVars>>
    /\ UNCHANGED <<sa, sb, wput, wterm, cur_b, yielded, joined>>

\* CoMatch keeping cur_a after a yield: only stream B advances.
CoMatchKeepsA ==
    /\ pc = "match"
    /\ IF VariantEq(sa[cur_a], sb[cur_b])
       THEN yielded' = Append(yielded, <<cur_a, cur_b>>) /\ pc' = "adv_b"
       ELSE yielded' = yielded /\ pc' = "adv_a"
    /\ UNCHANGED <<exVars, concVars, libVars>>
    /\ UNCHANGED <<sa, sb, chan, wput, wterm, cur_a, cur_b, joined>>

\* if cur_a.variant == cur_b.variant: yield cur_a, cur_b
CoMatch ==
    /\ pc = "match"
    /\ IF VariantEq(sa[cur_a], sb[cur_b])
       THEN yielded' = Append(yielded, <<cur_a, cur_b>>) /\ pc' = "adv_both"
       ELSE yielded' = yielded /\ pc' = "adv_a"
    /\ UNCHANGED <<exVars, concVars, libVars>>
    /\ UNCHANGED <<sa, sb, chan, wput, wterm, cur_a, cur_b, joined>>

\* cur_a = q_a.get(), of either branch; the else branch then tests
\* "if cur_a is None or cur_b is None".
CoAdvA ==
    /\ pc \in {"adv_both", "adv_a"}
    /\ chan["a"] # <<>>
    /\ cur_a' = Head(chan["a"])
    /\ chan' = [chan EXCEPT !["a"] = Tail(@)]
    /\ pc' = IF pc = "adv_both" THEN "adv_b"
             ELSE IF cur_a' = EndOfStream THEN "join_a" ELSE "while_b"
    /\ UNCHANGED <<exVars, concVars, libVars>>
    /\ UNCHANGED <<sa, sb, wput, wterm, cur_b, yielded, joined>>

\* cur_b = q_b.get() after a yield, then "if cur_a is None or cur_b is None".
CoAdvB ==
    /\ pc = "adv_b"
    /\ chan["b"] # <<>>
    /\ cur_b' = Head(chan["b"])
    /\ chan' = [chan EXCEPT !["b"] = Tail(@)]
    /\ pc' = IF cur_a = EndOfStream \/ cur_b' = EndOfStream THEN "join_a"
             ELSE "while_b"
    /\ UNCHANGED <<exVars, concVars, libVars>>
    /\ UNCHANGED <<sa, sb, wput, wterm, cur_a, yielded, joined>>

\* for p in processes: p.join()
CoJoin(w) ==
    /\ pc = "join_" \o w
    /\ wterm[w]
    /\ joined' = joined \cup {w}
    /\ pc' = IF w = "a" THEN "join_b" ELSE "done"
    /\ UNCHANGED <<exVars, concVars, libVars>>
    /\ UNCHANGED <<sa, sb, chan, wput, wterm, cur_a, cur_b, yielded>>

JoinNext ==
    \/ \E w \in Workers : WorkerPut(w)
    \/ \E w \in Workers : WorkerExit(w)
    \/ CoStart
    \/ CoGetFirstA
    \/ CoGetFirstB
    \/ CoWhileB
    \/ CoWhileA
    \/ CoMatch
    \/ CoAdvA
    \/ CoAdvB
    \/ \E w \in Workers : CoJoin(w)

(***************************************************************************)
(* index/impute2.py: the seek index of a line-oriented file.  Files and    *)
(* CSV text are sequences of one-character strings, so that offsets,       *)
(* splitting, formatting and parsing are computed.                         *)
(***************************************************************************)
\* _CHECK_STRING = b"GENIPE INDEX FILE"
CHECK_STRING ==
    <<"G", "E", "N", "I", "P", "E", " ", "I", "N", "D", "E", "X", " ",
      "F", "I", "L", "E">>

\* The column names Impute2Reader asks for, and the seek column.
COL_CHROM == <<"c", "h", "r", "o", "m">>
COL_NAME  == <<"n", "a", "m", "e">>
COL_POS   == <<"p", "o", "s">>
COL_SEEK  == <<"s", "e", "e", "k">>

\* sep.join(parts)
RECURSIVE Join(_, _)
Join(parts, sep) ==
    IF parts = <<>> THEN <<>>
    ELSE IF Len(parts) = 1 THEN parts[1]
    ELSE parts[1] \o <<sep>> \o Join(Tail(parts), sep)

\* text.split(sep): the pieces between the separators (one piece more than
\* there are separators).
RECURSIVE Split(_, _)
Split(text, sep) ==
    IF \A i \in DOMAIN text : text[i] # sep THEN <<text>>
    ELSE LET i == CHOOSE i \in DOMAIN text :
                     text[i] = sep /\ \A j \in 1..(i - 1) : text[j] # sep
         IN  <<SubSeq(text, 1, i - 1)>> \o Split(SubSeq(text, i + 1, Len(text)), sep)

\* The lines a reader sees in text: the pieces between the newlines, without
\* the empty piece after a final newline and without blank lines (pandas
\* skips them).
Lines(text) == SelectSeq(Split(text, "\n"), LAMBDA l : l # <<>>)

\* The offsets f.tell() returns after each line of "for line in f": after
\* every newline, and at the end of a file that does not end with one.
LineEnds(bytes) ==
    LET ends == {i \in DOMAIN bytes : bytes[i] = "\n" \/ i = Len(bytes)}
        RECURSIVE Sorted(_, _)
        Sorted(S, from) ==
            IF S = {} THEN <<>>
            ELSE IF from \in S THEN <<from>> \o Sorted(S \ {from}, from + 1)
            ELSE Sorted(S, from + 1)
    IN  Sorted(ends, 1)

\* _seek_generator(f), as a list
seek_generator(bytes) == <<0>> \o LineEnds(bytes)

\* The seek column keeping the offsets after each line instead of before.
seek_column_after_lines(bytes) ==
    SubSeq(seek_generator(bytes), 2, Len(seek_generator(bytes)))

\* np.fromiter(_seek_generator(f), dtype=np.uint)[:-1]
seek_column(bytes) ==
    SubSeq(seek_generator(bytes), 1, Len(seek_generator(bytes)) - 1)

Digit(c) ==
    CASE c = "0" -> 0 [] c = "1" -> 1 [] c = "2" -> 2 [] c = "3" -> 3 [] c = "4" -> 4
      [] c = "5" -> 5 [] c = "6" -> 6 [] c = "7" -> 7 [] c = "8" -> 8 [] c = "9" -> 9

IsDigit(c) == c \in {"0", "1", "2", "3", "4", "5", "6", "7", "8", "9"}

\* The token is read as an integer by the CSV parser.
IsInt(token) == token # <<>> /\ \A i \in DOMAIN token : IsDigit(token[i])

RECURSIVE ParseInt(_)
ParseInt(token) ==
    IF token = <<>> THEN 0
    ELSE 10 * ParseInt(SubSeq(token, 1, Len(token) - 1)) + Digit(token[Len(token)])

DigitChar(d) == <<"0", "1", "2", "3", "4", "5", "6", "7", "8", "9">>[d + 1]

\* str(n) for n >= 0
RECURSIVE FormatInt(_)
FormatInt(n) ==
    IF n < 10 THEN <<DigitChar(n)>>
    ELSE Append(FormatInt(n \div 10), DigitChar(n % 10))

\* A cell of a DataFrame: an integer or a string.
IntCell(n) == [kind |-> "int", num |-> n, text |-> <<>>]
StrCell(t) == [kind |-> "str", num |-> 0, text |-> t]

\* The column of a parsed CSV: integers when every token is one, else the
\* tokens as strings.
ParseColumn(tokens) ==
    IF \A i \in DOMAIN tokens : IsInt(tokens[i])
    THEN [i \in DOMAIN tokens |-> IntCell(ParseInt(tokens[i]))]
    ELSE [i \in DOMAIN tokens |-> StrCell(tokens[i])]

FormatCell(c) == IF c.kind = "int" THEN FormatInt(c.num) ELSE c.text

\* A DataFrame: its column names and, per column, its cells.
DataFrame(columns, cols) == [columns |-> columns, cols |-> cols]

\* pd.read_csv(fn, sep=sep, usecols=usecols, names=names): the columns
\* usecols (counted from 0) of every line, named names.
read_csv_names(text, sep, usecols, colnames) ==
    LET rows == [i \in DOMAIN Lines(text) |-> Split(Lines(text)[i], sep)]
    IN  DataFrame(colnames,
                  [k \in DOMAIN usecols |->
                      ParseColumn([i \in DOMAIN rows |-> rows[i][usecols[k] + 1]])])

\* pd.read_csv(io.StringIO(text)): the first line is the header.
read_csv_header(text) ==
    LET rows == [i \in DOMAIN Lines(text) |-> Split(Lines(text)[i], ",")]
        body == Tail(rows)
    IN  DataFrame(rows[1],
                  [k \in DOMAIN rows[1] |->
                      ParseColumn([i \in DOMAIN body |-> body[i][k]])])

\* index.to_csv(None, index=False)
to_csv(df) ==
    LET nrows == IF df.cols = <<>> THEN 0 ELSE Len(df.cols[1])
        row(i) == Join([k \in DOMAIN df.cols |-> FormatCell(df.cols[k][i])], ",")
    IN  Join([i \in 1..(nrows + 1) |->
                 IF i = 1 THEN Join(df.columns, ",") ELSE row(i - 1)], "\n")
        \o <<"\n">>

\* A file on disk as read_index sees it: plain bytes, then the output of
\* zlib.compress for zdata (nothing when zdata is None).
DiskFile(bytes, zdata) == [exists |-> TRUE, bytes |-> bytes, zdata |-> zdata]
NoFile == [exists |-> FALSE, bytes |-> <<>>, zdata |-> PyNone]

NoFrame == DataFrame(<<>>, <<>>)
NoIndex == [defined |-> FALSE, val |-> NoFrame]

\* write_index(fn, index)
write_index(index) == DiskFile(CHECK_STRING, Some(to_csv(index)))

\* i_file.read(len(_CHECK_STRING)) == _CHECK_STRING; a zlib stream starts
\* with a byte that is not in the check string.
check_string_read(f) ==
    /\ Len(f.bytes) >= Len(CHECK_STRING)
    /\ SubSeq(f.bytes, 1, Len(CHECK_STRING)) = CHECK_STRING

\* zlib.decompress(i_file.read()) succeeds: what follows the check string
\* is a zlib stream and nothing else.
inflates(f) == Len(f.bytes) = Len(CHECK_STRING) /\ f.zdata.defined

\* read_index without the test of the check string.
read_index_unchecked(f) ==
    IF ~inflates(f)
    THEN [err |-> "zlib.error", inflated |-> TRUE, index |-> NoIndex]
    ELSE [err |-> "", inflated |-> TRUE, index |-> Some(read_csv_header(f.zdata.val))]

\* read_index(fn): the error raised, whether zlib.decompress was called, and
\* the index returned.
read_index(f) ==
    IF ~check_string_read(f)
    THEN [err |-> "ValueError: not a valid index file", inflated |-> FALSE,
          index |-> NoIndex]
    ELSE IF ~inflates(f)
    THEN [err |-> "zlib.error", inflated |-> TRUE, index |-> NoIndex]
    ELSE [err |-> "", inflated |-> TRUE, index |-> Some(read_csv_header(f.zdata.val))]

\* generate_index(fn, cols, names, sep), the DataFrame it builds; the file
\* has as many rows as lines (else the assignment of "seek" raises).
generate_index(bytes, cols, colnames, sep) ==
    LET data == read_csv_names(bytes, sep, cols, colnames)
        seek == seek_column(bytes)
    IN  DataFrame(Append(data.columns, COL_SEEK),
                  Append(data.cols, [i \in DOMAIN seek |-> IntCell(seek[i])]))

\* The checks of get_index on the index read from the file: the error, "" if
\* none.
get_index_check(index, colnames) ==
    IF \E n \in Range(colnames) : n \notin (Range(index.columns) \ {COL_SEEK})
    THEN "ValueError: missing index columns: reindex"
    ELSE IF COL_SEEK \notin Range(index.columns)
    THEN "ValueError: invalid index: reindex"
    ELSE ""

\* f.seek(offset); f.readline().split(sep) on the data file.
seek_readline(bytes, offset, sep) ==
    LET rest == SubSeq(bytes, offset + 1, Len(bytes))
    IN  Split(Split(rest, "\n")[1], sep)

(***************************************************************************)
(* readers/impute2.py: Impute2Reader (Impute2Spec).  A position in the     *)
(* IMPUTE2 file is the number of the line that starts there (the offsets   *)
(* of a consistent index are the starts of the lines); the files are       *)
(* shorter than the 1024 characters iter_variants reads at once.           *)
(***************************************************************************)
\* The lines of the file: name, chrom, pos, a1, a2 (the probabilities play
\* no part).
ImpLinePool ==
    { [name |-> n, chrom |-> "1", pos |-> l[1], a1 |-> l[2], a2 |-> l[3]] :
          n \in {<<"r", "a">>, <<"r", "b">>},
          l \in {<<100, <<"A">>, <<"C">>>>, <<100, <<"G">>, <<"A">>>>,
                 <<200, <<"A">>, <<"C">>>>} }

\* "{}:dup{}".format(marker, counter[marker])
dup_name(marker, k) == marker \o <<":", "d", "u", "p">> \o FormatInt(k)

\* The index of __init__ with the first occurrence of a duplicated name left
\* as it is.
impute2_index_keeps_first(lines) ==
    LET seen(i) == Cardinality({j \in 1..i : lines[j].name = lines[i].name})
    IN  [i \in DOMAIN lines |->
            [name |-> IF seen(i) > 1 THEN dup_name(lines[i].name, seen(i) - 1)
                      ELSE lines[i].name,
             chrom |-> lines[i].chrom, pos |-> lines[i].pos, seek |-> i,
             multiallelic |-> \E j \in DOMAIN lines :
                 j # i /\ lines[j].chrom = lines[i].chrom /\ lines[j].pos = lines[i].pos]]

\* self._impute2_index after __init__, for a consistent index file: every
\* row of a name that occurs more than once is renamed with the count of its
\* occurrences so far; rows sharing chrom and pos are multiallelic.
impute2_index(lines) ==
    LET seen(i) == Cardinality({j \in 1..i : lines[j].name = lines[i].name})
        duplicated(i) == \E j \in DOMAIN lines : j # i /\ lines[j].name = lines[i].name
    IN  [i \in DOMAIN lines |->
            [name |-> IF duplicated(i) THEN dup_name(lines[i].name, seen(i))
                      ELSE lines[i].name,
             chrom |-> lines[i].chrom, pos |-> lines[i].pos, seek |-> i,
             multiallelic |-> \E j \in DOMAIN lines :
                 j # i /\ lines[j].chrom = lines[i].chrom /\ lines[j].pos = lines[i].pos]]

\* self._dup_markers[marker]: the new names of its rows, in row order; empty
\* for a name that is not duplicated.
dup_markers(lines, index, marker) ==
    LET rows == SelectSeq([i \in DOMAIN lines |-> i],
                          LAMBDA i : lines[i].name = marker)
    IN  IF Len(rows) < 2 THEN <<>> ELSE [k \in DOMAIN rows |-> index[rows[k]].name]

\* _parse_impute2_line on the line at a position: the record, tagged with
\* the line it was read from.
parse_impute2_line(lines, at) ==
    [line |-> at, name |-> lines[at].name,
     chrom |-> lines[at].chrom, pos |-> lines[at].pos,
     reference |-> lines[at].a1, coded |-> lines[at].a2, multiallelic |-> FALSE]

\* _fix_genotypes_object(genotypes, variant_info) on an indexed reader: the
\* error raised, or the record with the name and multiallelic of the row.
fix_genotypes_object(g, info) ==
    IF info.name # g.name
       /\ (Len(info.name) < Len(g.name)
           \/ SubSeq(info.name, 1, Len(g.name)) # g.name)
    THEN [exc |-> "ValueError: Index file not synced with IMPUTE2 file", g |-> g]
    ELSE [exc |-> "",
          g |-> [g EXCEPT !.name = info.name, !.multiallelic = info.multiallelic]]

\* get_variant_by_name(name) on an indexed reader: the records returned and
\* the file position it leaves.
impute2_by_name(lines, index, fpos, name) ==
    LET rows(n) == SelectSeq([i \in DOMAIN index |-> i], LAMBDA i : index[i].name = n)
        dups == dup_markers(lines, index, name)
        wanted == IF rows(name) # <<>> THEN rows(name)
                  ELSE [k \in DOMAIN dups |-> rows(dups[k])[1]]
    IN  [exc |-> "",
         result |-> [k \in DOMAIN wanted |->
                        fix_genotypes_object(
                            parse_impute2_line(lines, index[wanted[k]].seek),
                            index[wanted[k]]).g],
         fpos |-> IF wanted = <<>> THEN fpos
                  ELSE index[wanted[Len(wanted)]].seek + 1]

\* get_variant_genotypes(variant) on an indexed reader.
impute2_get_variant_genotypes(lines, index, fpos, variant) ==
    LET info == SelectSeq([i \in DOMAIN index |-> i], LAMBDA i :
                    index[i].chrom = variant.chrom /\ index[i].pos = variant.pos)
        read(i) == parse_impute2_line(lines, index[i].seek)
        row_alleles(i) == encode_alleles(Some(<<read(i).reference, read(i).coded>>))
        kept == IF Len(info) = 1
                THEN \* _get_biallelic_variant
                     IF row_alleles(info[1]) # variant.alleles THEN <<>>
                     ELSE info
                ELSE \* _get_multialleic_variant
                     IF ~variant.alleles.defined THEN info
                     ELSE SelectSeq(info, LAMBDA i :
                              Range(row_alleles(i).val) \subseteq Range(variant.alleles.val))
    IN  [exc |-> IF variant.chrom = "?"
                 THEN "ValueError: Invalid chromosome for IMPUTE2" ELSE "",
         result |-> [k \in DOMAIN kept |->
                        IF Len(info) = 1 THEN read(kept[k])
                        ELSE fix_genotypes_object(read(kept[k]), index[kept[k]]).g],
         fpos |-> IF info = <<>> THEN fpos ELSE index[info[Len(info)]].seek + 1]

(***************************************************************************)
(* core.py, Variant alone (VariantSpec): two Variants are constructed from *)
(* raw arguments; the first may be complemented, by copy or in place; the  *)
(* two are compared.                                                       *)
(***************************************************************************)
\* The allele strings given to the constructor, in the caller's case.
RawAllelePool == {<<"a">>, <<"C">>, <<"A", "G">>}

\* The alleles argument: None, or up to MaxAlleles strings in any order.
RawAlleles == {PyNone} \cup {Some(q) : q \in SeqsUpTo(RawAllelePool, MaxAlleles)}

VarInit ==
    /\ raw \in { << [name |-> "rs1", chrom |-> c1, pos |-> 100, alleles |-> a1],
                   [name |-> "rs1", chrom |-> l2[1], pos |-> l2[2], alleles |-> a2] >> :
                  c1 \in {"1", "?"},
                  l2 \in {<<"1", 100>>, <<"1", 200>>, <<"2", 100>>, <<"?", 100>>},
                  a1 \in RawAlleles, a2 \in RawAlleles }
    /\ var = <<>> /\ vops = <<>> /\ veq = "unset"

VarFrame ==
    UNCHANGED <<exVars, concVars, joinVars, genoVars, ixVars, splitVars, impVars>>

\* Variant(name, chrom, pos, alleles), for both.
VNew ==
    /\ raw # <<>> /\ var = <<>>
    /\ var' = [i \in 1..2 |->
                 Variant(raw[i].name, raw[i].chrom, raw[i].pos, raw[i].alleles)]
    /\ UNCHANGED <<raw, vops, veq>>
    /\ VarFrame

\* var[1] = var[1].complementary_strand_copy()
VComplementaryStrandCopy ==
    /\ var # <<>> /\ veq = "unset" /\ Len(vops) < MaxOps
    /\ var[1].alleles.defined
    /\ var' = [var EXCEPT ![1] = complementary_strand_copy(@)]
    /\ vops' = Append(vops, "copy")
    /\ UNCHANGED <<raw, veq>>
    /\ VarFrame

\* var[1].complement_alleles()
VComplementAlleles ==
    /\ var # <<>> /\ veq = "unset" /\ Len(vops) < MaxOps
    /\ var[1].alleles.defined
    /\ var' = [var EXCEPT ![1] = complement_in_place(@)]
    /\ vops' = Append(vops, "in_place")
    /\ UNCHANGED <<raw, veq>>
    /\ VarFrame

\* var[1] == var[2]
VEq ==
    /\ var # <<>> /\ veq = "unset"
    /\ veq' = IF VariantEq(var[1], var[2]) THEN "True" ELSE "False"
    /\ UNCHANGED <<raw, var, vops>>
    /\ VarFrame

VarNext ==
    \/ VNew
    \/ VComplementaryStrandCopy
    \/ VComplementAlleles
    \/ VEq

(***************************************************************************)
(* core.py, Genotypes alone.  GenoSpec: one record is constructed and      *)
(* flip_coded / code_minor are applied to it.  GenoEqSpec: two records are *)
(* constructed and compared.  A record holds its Variant by value here.    *)
(***************************************************************************)
ACG == <<<<"A">>, <<"C">>, <<"G">>>>

\* The dosages of the model: 0, 1/8, 1.25, 1.5 and missing.
DosePool == {0, One \div 8, One + One \div 4, One + One \div 2, NaN}

GenoInit ==
    /\ gin \in { << [variant |-> Variant("rs1", "1", 100, Alleles(ACG)),
                     genotypes |-> a, reference |-> rc[1], coded |-> rc[2],
                     multiallelic |-> FALSE] >> :
                  a \in SeqsUpTo(DosePool, MaxDoses) \ {<<>>},
                  rc \in {<< <<"A">>, <<"C">> >>, << <<"c">>, <<"A">> >>} }
    /\ grec = <<>> /\ gops = <<>> /\ gprev = <<>> /\ geq = "unset"

\* The dosages of two records compared: 0, 1/8, 1, 2 and missing.
EqDosePool == {0, One \div 8, One, Two, NaN}

GenoEqInit ==
    /\ gin \in { << [variant |-> Variant("rs1", "1", 100, Alleles(ACG)),
                     genotypes |-> a, reference |-> <<"A">>, coded |-> <<"C">>,
                     multiallelic |-> FALSE],
                    [variant |-> Variant("rs2", l[1], l[2], Alleles(ACG)),
                     genotypes |-> b, reference |-> rc[1], coded |-> rc[2],
                     multiallelic |-> FALSE] >> :
                  a \in SeqsUpTo(EqDosePool, MaxSamples) \ {<<>>},
                  b \in SeqsUpTo(EqDosePool, MaxSamples) \ {<<>>},
                  l \in {<<"1", 100>>, <<"1", 200>>, <<"?", 100>>},
                  rc \in {<< <<"A">>, <<"C">> >>, << <<"C">>, <<"A">> >>,
                          << <<"A">>, <<"G">> >>} }
    /\ Len(gin[1].genotypes) = Len(gin[2].genotypes)
    /\ grec = <<>> /\ gops = <<>> /\ gprev = <<>> /\ geq = "unset"

GenoFrame ==
    UNCHANGED <<exVars, concVars, joinVars, varVars, ixVars, splitVars, impVars>>

\* Genotypes(variant, genotypes, reference, coded, multiallelic), for every
\* record; the arguments pass the checks of __init__.
GNew ==
    /\ gin # <<>> /\ grec = <<>>
    /\ \A i \in DOMAIN gin :
          GenotypesInitOK(gin[i].variant, gin[i].reference, gin[i].coded)
    /\ grec' = [i \in DOMAIN gin |->
                  Genotypes(gin[i].variant, gin[i].genotypes, gin[i].reference,
                            gin[i].coded, gin[i].multiallelic)]
    /\ UNCHANGED <<gin, gops, gprev, geq>>
    /\ GenoFrame

\* grec[1].flip_coded()
GFlipCoded ==
    /\ grec # <<>> /\ Len(gops) < MaxOps
    /\ grec' = [grec EXCEPT ![1] = flip_coded(@)]
    /\ gprev' = <<grec[1]>>
    /\ gops' = Append(gops, "flip_coded")
    /\ UNCHANGED <<gin, geq>>
    /\ GenoFrame

\* grec[1].code_minor()
GCodeMinor ==
    /\ grec # <<>> /\ Len(gops) < MaxOps
    /\ grec' = [grec EXCEPT ![1] = code_minor(@)]
    /\ gprev' = <<grec[1]>>
    /\ gops' = Append(gops, "code_minor")
    /\ UNCHANGED <<gin, geq>>
    /\ GenoFrame

\* grec[1] == grec[2]
GEq ==
    /\ Len(grec) = 2 /\ geq = "unset"
    /\ geq' = genotypes_eq(grec[1], grec[2])
    /\ UNCHANGED <<gin, grec, gops, gprev>>
    /\ GenoFrame

GenoNext ==
    \/ GNew
    \/ GFlipCoded
    \/ GCodeMinor

GenoEqNext ==
    \/ GNew
    \/ GEq

(***************************************************************************)
(* index/impute2.py as a state machine (IndexSpec): a data file of         *)
(* space-separated lines, with whatever sits at its ".idx" path; the       *)
(* index is generated, read back, fetched with get_index, and a line is    *)
(* read at an offset of the index that was returned.                       *)
(***************************************************************************)
\* The lines of the data file: chromosome, name, position, then the rest.
LinePool ==
    [chrom : {<<"1">>, <<"X">>},
     name  : {<<"r", "1">>, <<"0", "7">>},
     pos   : {<<"5">>, <<"1", "0">>},
     rest  : {<<"A">>}]

LineText(l) == Join(<<l.chrom, l.name, l.pos, l.rest>>, " ")

\* The bytes of a file of these lines; the last line may lack its newline.
FileBytes(lines, final_newline) ==
    Join([i \in DOMAIN lines |-> LineText(lines[i])], "\n")
        \o (IF final_newline THEN <<"\n">> ELSE <<>>)

\* cols, names and sep as Impute2Reader passes them to get_index.
IX_COLS  == <<0, 1, 2>>
IX_NAMES == <<COL_CHROM, COL_NAME, COL_POS>>
IX_SEP   == " "

\* An index of one row written earlier with the given columns.
OldIndex(columns) == DataFrame(columns, [k \in DOMAIN columns |-> <<IntCell(0)>>])

\* What may sit at the ".idx" path before anything is called.
DiskPool ==
    { NoFile,
      DiskFile(<<>>, PyNone),
      DiskFile(SubSeq(CHECK_STRING, 1, 6),
               Some(to_csv(OldIndex(Append(IX_NAMES, COL_SEEK))))),
      DiskFile([CHECK_STRING EXCEPT ![Len(CHECK_STRING)] = "S"],
               Some(to_csv(OldIndex(Append(IX_NAMES, COL_SEEK))))),
      DiskFile(CHECK_STRING, PyNone),
      DiskFile(CHECK_STRING, Some(to_csv(OldIndex(<<COL_CHROM, COL_POS, COL_SEEK>>)))),
      DiskFile(CHECK_STRING, Some(to_csv(OldIndex(IX_NAMES)))) }

NoRead == [defined |-> FALSE, row |-> 0, fields |-> <<>>]

IxInit ==
    /\ \E lines \in SeqsUpTo(LinePool, MaxLines) \ {<<>>}, nl \in BOOLEAN :
           ifile = [lines |-> lines, bytes |-> FileBytes(lines, nl)]
    /\ ixdisk \in DiskPool
    /\ built = NoIndex /\ loaded = NoIndex
    /\ icall = "" /\ ixerr = "" /\ inflated = FALSE
    /\ iread = NoRead

IxFrame ==
    UNCHANGED <<exVars, concVars, joinVars, varVars, genoVars, splitVars, impVars>>

\* generate_index(fn, cols, names, sep)
IGenerateIndex ==
    LET data == generate_index(ifile.bytes, IX_COLS, IX_NAMES, IX_SEP)
    IN  /\ icall' = "generate_index"
        /\ built' = Some(data)
        /\ ixdisk' = write_index(data)
        /\ loaded' = NoIndex /\ ixerr' = "" /\ inflated' = FALSE
        /\ iread' = NoRead
        /\ UNCHANGED ifile
        /\ IxFrame

\* read_index(get_index_fn(fn))
IReadIndex ==
    /\ icall' = "read_index"
    /\ IF ~ixdisk.exists
       THEN /\ ixerr' = "FileNotFoundError"
            /\ loaded' = NoIndex /\ inflated' = FALSE
       ELSE LET r == read_index(ixdisk)
            IN  /\ ixerr' = r.err
                /\ loaded' = r.index /\ inflated' = r.inflated
    /\ iread' = NoRead
    /\ UNCHANGED <<ifile, ixdisk, built>>
    /\ IxFrame

\* get_index(fn, cols, names, sep)
IGetIndex ==
    /\ icall' = "get_index"
    /\ iread' = NoRead
    /\ IF ~ixdisk.exists
       THEN LET data == generate_index(ifile.bytes, IX_COLS, IX_NAMES, IX_SEP)
            IN  /\ built' = Some(data)
                /\ ixdisk' = write_index(data)
                /\ loaded' = Some(data)
                /\ ixerr' = "" /\ inflated' = FALSE
       ELSE LET r == read_index(ixdisk)
                check == IF r.err # "" THEN r.err
                         ELSE get_index_check(r.index.val, IX_NAMES)
            IN  /\ ixerr' = check
                /\ loaded' = IF check = "" THEN r.index ELSE NoIndex
                /\ inflated' = r.inflated
                /\ UNCHANGED <<ixdisk, built>>
    /\ UNCHANGED ifile
    /\ IxFrame

\* The column of a DataFrame by name: index[name]
Column(df, name) ==
    df.cols[CHOOSE k \in DOMAIN df.columns : df.columns[k] = name]

\* f.seek(int(index.seek[i])); f.readline() for a row of the index returned
\* last (Impute2Reader reads its lines so).
ISeekReadline(i) ==
    /\ loaded.defined
    /\ COL_SEEK \in Range(loaded.val.columns)
    /\ i \in DOMAIN Column(loaded.val, COL_SEEK)
    /\ Column(loaded.val, COL_SEEK)[i].num < Len(ifile.bytes)
    /\ iread' = [defined |-> TRUE, row |-> i,
                 fields |-> seek_readline(ifile.bytes,
                                          Column(loaded.val, COL_SEEK)[i].num,
                                          IX_SEP)]
    /\ UNCHANGED <<ifile, ixdisk, built, loaded, icall, ixerr, inflated>>
    /\ IxFrame

IxNext ==
    \/ IGenerateIndex
    \/ IReadIndex
    \/ IGetIndex
    \/ \E i \in 1..MaxLines : ISeekReadline(i)

(***************************************************************************)
(* core.py, SplitChromosomeReader (SplitSpec): a composer is constructed   *)
(* over DictBasedReaders, one per chromosome key, and queried.             *)
(***************************************************************************)
\* The sample lists sub-readers report.
SamplesPool == {<<"s1", "s2">>, <<"s2", "s1">>, <<"s1">>}

\* The keys of chrom_to_reader, and what a sub-reader holds: variants of its
\* own chromosome or of another one.
SplitKeys == {"1", "2", "X"}
SplitHeld == { Variant("v", c, 100, Alleles(AC)) : c \in {"1", "2"} }

\* SplitChromosomeReader.__init__ comparing the sample lists as sets.
samples_mismatch_unordered(seen, cur) == Range(seen) # Range(cur)

\* samples != cur_samples
samples_mismatch(seen, cur) == seen # cur

\* SplitChromosomeReader.__init__: the readers it asked for their samples
\* before returning or raising, and the samples it kept.
RECURSIVE split_init(_, _, _)
split_init(readers, i, seen) ==
    IF i > Len(readers)
    THEN [state |-> "built", asked |-> Len(readers), samples |-> seen]
    ELSE IF seen.defined /\ samples_mismatch(seen.val, readers[i].samples)
    THEN [state |-> "ValueError: Not all sub-readers have the same sample order.",
          asked |-> i, samples |-> PyNone]
    ELSE split_init(readers, i + 1, Some(readers[i].samples))

\* self.chrom_to_reader[key] falling back on the first sub-reader.
reader_for_or_first(readers, key, isobj) ==
    IF readers = <<>> THEN {} ELSE {1}

\* self.chrom_to_reader[key]: the readers whose key has the hash of the
\* query's key and equals it (none: KeyError).  A Chromosome object equals
\* the string of its name unless it is the unknown chromosome; a string
\* equals the same string.
reader_for(readers, key, isobj) ==
    { i \in DOMAIN readers :
          IF isobj THEN ChromEq(key, readers[i].key) ELSE readers[i].key = key }

\* A query routed by reader_for: the sub-readers called, the error raised
\* and what the one called returned (found[i]: what sub-reader i returns).
split_query(readers, kind, key, isobj, lo, hi, found) ==
    LET hit == reader_for(readers, key, isobj)
    IN  [kind |-> kind, key |-> key, lo |-> lo, hi |-> hi,
         called |-> hit,
         exc |-> IF hit = {} THEN "ValueError: Unable to find a reader instance"
                 ELSE "",
         result |-> IF hit = {} THEN <<>>
                    ELSE found[CHOOSE i \in hit : TRUE]]

NoQuery ==
    [kind |-> "none", key |-> "", lo |-> 0, hi |-> 0, called |-> {}, exc |-> "",
     result |-> <<>>]

SplitInit ==
    /\ \E keys \in SeqsUpTo(SplitKeys, MaxReaders) :
           /\ \A i, j \in DOMAIN keys : i # j => keys[i] # keys[j]
           /\ \E sm \in [DOMAIN keys -> SamplesPool],
                 hd \in [DOMAIN keys -> SeqsUpTo(SplitHeld, 1)] :
                  subs = [i \in DOMAIN keys |->
                             [key |-> keys[i], samples |-> sm[i], held |-> hd[i]]]
    /\ comp = [state |-> "none", asked |-> 0, samples |-> PyNone]
    /\ sq = NoQuery

SplitFrame ==
    UNCHANGED <<exVars, concVars, joinVars, varVars, genoVars, ixVars, impVars>>

\* SplitChromosomeReader(chrom_to_reader)
SNew ==
    /\ comp.state = "none"
    /\ comp' = split_init(subs, 1, PyNone)
    /\ UNCHANGED <<subs, sq>>
    /\ SplitFrame

\* SplitChromosomeReader.get_variant_genotypes(variant)
SGetVariantGenotypes(variant) ==
    /\ comp.state = "built"
    /\ sq' = split_query(subs, "get_variant_genotypes", variant.chrom, TRUE,
                         variant.pos, variant.pos,
                         [i \in DOMAIN subs |->
                             SelectSeq(subs[i].held, LAMBDA v : VariantEq(v, variant))])
    /\ UNCHANGED <<subs, comp>>
    /\ SplitFrame

\* SplitChromosomeReader.get_variants_in_region(chrom, start, end)
SGetVariantsInRegion(chrom, start, end) ==
    /\ comp.state = "built"
    /\ sq' = split_query(subs, "get_variants_in_region", chrom, FALSE, start, end,
                         [i \in DOMAIN subs |->
                             SelectSeq(subs[i].held, LAMBDA v :
                                 ChromEq(chrom, v.chrom) /\ start <= v.pos
                                                        /\ v.pos <= end)])
    /\ UNCHANGED <<subs, comp>>
    /\ SplitFrame

SplitNext ==
    \/ SNew
    \/ \E c \in SplitKeys \cup {"?"}, p \in {100, 200} :
           SGetVariantGenotypes(Variant("q", c, p, NoAlleles))
    \/ \E c \in SplitKeys, r \in {<<50, 150>>, <<150, 250>>} :
           SGetVariantsInRegion(c, r[1], r[2])

(***************************************************************************)
(* Impute2Reader as a state machine (Impute2Spec): the reader is built     *)
(* over a file and what sits at its index path, looked up by name and by   *)
(* variant, iterated step by step, and closed.                             *)
(***************************************************************************)
\* What get_index does with the file at the index path: "absent" (no such
\* file: has_index is False), "good" (the index of this file), or the
\* ValueError it raises.
IdxFilePool ==
    {"absent", "good", "ValueError: not a valid index file",
     "ValueError: missing index columns: reindex"}

NoReader == [state |-> "none", open |-> FALSE, index |-> <<>>, fpos |-> 0]
NoGen    == [state |-> "none", i |-> 0, out |-> <<>>, disturbed |-> FALSE]
NoLookup == [kind |-> "none", name |-> <<>>, variant |-> Variant(<<>>, "?", 0, NoAlleles),
             exc |-> "", result |-> <<>>]

ImpInit ==
    /\ ilines \in SeqsUpTo(ImpLinePool, MaxLines) \ {<<>>}
    /\ idxfile \in IdxFilePool
    /\ rdr = NoReader /\ gen = NoGen /\ lk = NoLookup

ImpFrame ==
    UNCHANGED <<exVars, concVars, joinVars, varVars, genoVars, ixVars, splitVars>>

\* Impute2Reader(filename, sample_filename): the file is opened, then the
\* index is fetched when there is one; an error of get_index leaves
\* __init__ at once.
MNew ==
    /\ rdr.state = "none"
    /\ rdr' = IF idxfile \in {"absent", "good"}
              THEN [state |-> "ready", open |-> TRUE,
                    index |-> IF idxfile = "good" THEN impute2_index(ilines) ELSE <<>>,
                    fpos |-> 1]
              ELSE [state |-> idxfile, open |-> TRUE, index |-> <<>>, fpos |-> 1]
    /\ UNCHANGED <<ilines, idxfile, gen, lk>>
    /\ ImpFrame

\* __exit__ at the end of a with-block, left normally or by an exception:
\* self.close()
MExit ==
    /\ rdr.state = "ready"
    /\ rdr' = [rdr EXCEPT !.state = "closed", !.open = FALSE]
    /\ UNCHANGED <<ilines, idxfile, gen, lk>>
    /\ ImpFrame

\* A lookup made while a generator of iter_genotypes is suspended moves the
\* position of the file the generator reads from.
Disturb(g) == IF g.state = "running" THEN [g EXCEPT !.disturbed = TRUE] ELSE g

\* reader.get_variant_by_name(name)
MGetVariantByName(name) ==
    /\ rdr.state = "ready"
    /\ IF idxfile = "absent"
       THEN /\ lk' = [NoLookup EXCEPT !.kind = "get_variant_by_name", !.name = name,
                                      !.exc = "NotImplementedError"]
            /\ UNCHANGED <<rdr, gen>>
       ELSE LET r == impute2_by_name(ilines, rdr.index, rdr.fpos, name)
            IN  /\ lk' = [NoLookup EXCEPT !.kind = "get_variant_by_name",
                                          !.name = name, !.result = r.result]
                /\ rdr' = [rdr EXCEPT !.fpos = r.fpos]
                /\ gen' = IF r.fpos # rdr.fpos THEN Disturb(gen) ELSE gen
    /\ UNCHANGED <<ilines, idxfile>>
    /\ ImpFrame

\* reader.get_variant_genotypes(variant)
MGetVariantGenotypes(variant) ==
    /\ rdr.state = "ready"
    /\ IF idxfile = "absent"
       THEN /\ lk' = [NoLookup EXCEPT !.kind = "get_variant_genotypes",
                                      !.variant = variant,
                                      !.exc = "NotImplementedError"]
            /\ UNCHANGED <<rdr, gen>>
       ELSE LET r == impute2_get_variant_genotypes(ilines, rdr.index, rdr.fpos, variant)
            IN  /\ lk' = [NoLookup EXCEPT !.kind = "get_variant_genotypes",
                                          !.variant = variant, !.exc = r.exc,
                                          !.result = IF r.exc = "" THEN r.result ELSE <<>>]
                /\ rdr' = [rdr EXCEPT !.fpos = r.fpos]
                /\ gen' = IF r.fpos # rdr.fpos THEN Disturb(gen) ELSE gen
    /\ UNCHANGED <<ilines, idxfile>>
    /\ ImpFrame

\* list(reader.iter_variants()): every row of the index is sought and 1024
\* characters are read from there, which leaves the file at its end.
MIterVariants ==
    /\ rdr.state = "ready"
    /\ IF idxfile = "absent"
       THEN /\ lk' = [NoLookup EXCEPT !.kind = "iter_variants",
                                      !.exc = "NotImplementedError"]
            /\ UNCHANGED <<rdr, gen>>
       ELSE /\ lk' = [NoLookup EXCEPT !.kind = "iter_variants",
                         !.result = [k \in DOMAIN rdr.index |->
                                        parse_impute2_line(ilines, rdr.index[k].seek)]]
            /\ rdr' = [rdr EXCEPT !.fpos = Len(ilines) + 1]
            /\ gen' = IF rdr'.fpos # rdr.fpos THEN Disturb(gen) ELSE gen
    /\ UNCHANGED <<ilines, idxfile>>
    /\ ImpFrame

\* reader.iter_genotypes(): a new generator; one created earlier is not
\* resumed any more.
MIterGenotypes ==
    /\ rdr.state = "ready"
    /\ gen' = [NoGen EXCEPT !.state = "created"]
    /\ UNCHANGED <<ilines, idxfile, rdr, lk>>
    /\ ImpFrame

\* The position the generator reads its first line from, had it no seek(0).
iter_first_position_kept(fpos) == fpos

\* self._impute2_file.seek(0)
iter_first_position(fpos) == 1

\* next() on the generator: its first step seeks to the start; every step
\* reads the line at the file position, pairs it with row i of the index
\* and fixes it.
MIterNext ==
    /\ rdr.state = "ready"
    /\ gen.state \in {"created", "running"}
    /\ LET at == IF gen.state = "created" THEN iter_first_position(rdr.fpos)
                 ELSE rdr.fpos
           g  == parse_impute2_line(ilines, at)
           fx == IF idxfile = "absent" THEN [exc |-> "", g |-> g]
                 ELSE IF gen.i + 1 > Len(rdr.index) THEN [exc |-> "IndexError", g |-> g]
                 ELSE fix_genotypes_object(g, rdr.index[gen.i + 1])
       IN  IF at > Len(ilines)
           THEN /\ gen' = [gen EXCEPT !.state = "done"]
                /\ rdr' = [rdr EXCEPT !.fpos = at]
           ELSE /\ rdr' = [rdr EXCEPT !.fpos = at + 1]
                /\ gen' = IF fx.exc # "" THEN [gen EXCEPT !.state = fx.exc]
                          ELSE [gen EXCEPT !.state = "running", !.i = @ + 1,
                                           !.out = Append(@, fx.g)]
    /\ UNCHANGED <<ilines, idxfile, lk>>
    /\ ImpFrame

ImpNext ==
    \/ MNew
    \/ MExit
    \/ \E n \in {<<"r", "a">>, <<"r", "b">>, <<"r", "c">>} : MGetVariantByName(n)
    \/ \E c \in {"1", "?"}, p \in {100, 200},
          a \in {NoAlleles, Alleles(AC), Alleles(<<<<"A">>, <<"C">>, <<"G">>>>)} :
           MGetVariantGenotypes(Variant(<<"q">>, c, p, a))
    \/ MIterVariants
    \/ MIterGenotypes
    \/ MIterNext

(***************************************************************************)
(* The specifications.  Each leaves the other components idle.             *)
(***************************************************************************)
ExIdle ==
    /\ vheap = <<>> /\ store = <<>> /\ split = FALSE
    /\ names = PyNone /\ variants = PyNone
    /\ epc = "idle" /\ ei = 0 /\ hits = <<>> /\ flip_strand = FALSE
    /\ nqueries = 0 /\ out = <<>> /\ exc = ""
    /\ LOG_NOT_FOUND = TRUE /\ log0 = TRUE

ConcIdle ==
    /\ tpc = <<>> /\ prev_log = <<>> /\ tleft = <<>>

JoinIdle ==
    /\ sa = <<>> /\ sb = <<>>
    /\ chan = <<>> /\ wput = <<>> /\ wterm = <<>>
    /\ pc = "idle" /\ cur_a = EndOfStream /\ cur_b = EndOfStream
    /\ yielded = <<>> /\ joined = {}

VarIdle ==
    /\ raw = <<>> /\ var = <<>> /\ vops = <<>> /\ veq = "unset"

GenoIdle ==
    /\ gin = <<>> /\ grec = <<>> /\ gops = <<>> /\ gprev = <<>> /\ geq = "unset"

IxIdle ==
    /\ ifile = <<>> /\ ixdisk = NoFile /\ built = NoIndex /\ loaded = NoIndex
    /\ icall = "" /\ ixerr = "" /\ inflated = FALSE /\ iread = NoRead

SplitIdle ==
    /\ subs = <<>> /\ comp = [state |-> "none", asked |-> 0, samples |-> PyNone]
    /\ sq = NoQuery

ImpIdle ==
    /\ ilines = <<>> /\ idxfile = "absent"
    /\ rdr = NoReader /\ gen = NoGen /\ lk = NoLookup

LibIdle == VarIdle /\ GenoIdle /\ IxIdle /\ SplitIdle /\ ImpIdle

Init == ExInit /\ ConcIdle /\ JoinIdle /\ LibIdle

Spec == Init /\ [][Next]_vars

ReaderStart == ReaderSpecInit /\ ConcIdle /\ JoinIdle /\ LibIdle

ReaderSpec == ReaderStart /\ [][ReaderNext]_vars

ConcStart == ConcInit /\ JoinIdle /\ LibIdle

ConcSpec == ConcStart /\ [][ConcNext]_vars

JoinStart == JoinInit /\ ExIdle /\ ConcIdle /\ LibIdle

JoinSpec == JoinStart /\ [][JoinNext]_vars

VariantStart == VarInit /\ ExIdle /\ ConcIdle /\ JoinIdle /\ GenoIdle /\ IxIdle /\ SplitIdle
    /\ ImpIdle

GenoStart == GenoInit /\ ExIdle /\ ConcIdle /\ JoinIdle /\ VarIdle /\ IxIdle /\ SplitIdle
    /\ ImpIdle

GenoSpec == GenoStart /\ [][GenoNext]_vars

GenoEqStart == GenoEqInit /\ ExIdle /\ ConcIdle /\ JoinIdle /\ VarIdle /\ IxIdle /\ SplitIdle
    /\ ImpIdle

GenoEqSpec == GenoEqStart /\ [][GenoEqNext]_vars

VariantSpec == VariantStart /\ [][VarNext]_vars

IndexStart == IxInit /\ ExIdle /\ ConcIdle /\ JoinIdle /\ VarIdle /\ GenoIdle /\ SplitIdle
    /\ ImpIdle

IndexSpec == IndexStart /\ [][IxNext]_vars

SplitStart ==
    SplitInit /\ ExIdle /\ ConcIdle /\ JoinIdle /\ VarIdle /\ GenoIdle /\ IxIdle
    /\ ImpIdle

SplitSpec == SplitStart /\ [][SplitNext]_vars

Impute2Start ==
    ImpInit /\ ExIdle /\ ConcIdle /\ JoinIdle /\ VarIdle /\ GenoIdle /\ IxIdle
    /\ SplitIdle

Impute2Spec == Impute2Start /\ [][ImpNext]_vars

(***************************************************************************)
(* Claims on the reader, the records and the Extractor.                    *)
(***************************************************************************)
\* The record the reader was built with under this name.
Pristine(name) == CHOOSE r \in Range(StoredPool) : r.name = name

\* C3: whatever the caller does to the records it was handed, every stored
\* record keeps its dosage array, reference, coded and its variant's alleles.
C3_StoredRecordsUnchanged ==
    \A i \in DOMAIN store :
        /\ store[i].g.genotypes = Pristine(store[i].name).genotypes
        /\ store[i].g.reference = Pristine(store[i].name).reference
        /\ store[i].g.coded = Pristine(store[i].name).coded
        /\ vheap[store[i].g.variant].alleles = Pristine(store[i].name).v.alleles

\* The extraction is running or has ended.
Extracting == epc \in {"by_names", "by_variants", "yielding", "done", "raised"} /\ ei > 0

\* C4: after every _get_variant_silent call, and so when iter_genotypes has
\* finished or failed, LOG_NOT_FOUND has the value it had at the start.
C4_FlagRestored == Extracting => LOG_NOT_FOUND = log0

\* C5: once both concurrent extractions have finished, LOG_NOT_FOUND has the
\* value it had before either started.
C5_FlagRestoredAfterBoth ==
    (\A t \in Threads : tpc[t] = "done") => LOG_NOT_FOUND = log0

\* The requested variant being processed.
Requested == vheap[variants.val[ei]]

\* The reader holds a record equal to v.
DirectMatch(v) == \E i \in DOMAIN store : VariantEq(vheap[store[i].g.variant], v)

\* The stored records equal to the complementary-strand copy of v.
CompMatches(v) ==
    SelectSeq(store, LAMBDA e : VariantEq(vheap[e.g.variant], complementary_strand_copy(v)))

\* The lookup of a requested variant is taking place in this step.
LookupStep == epc = "by_variants" /\ ei <= Len(variants.val) /\ epc' # epc

\* C6: for a non-ambiguous requested variant v without a direct match and
\* with records matching its complementary-strand copy, the hits are those
\* stored records, one each; each is yielded once, with variant v, reference
\* and coded complemented and the stored dosage array; the generator moves on
\* only when all have been yielded.
C6_OppositeStrandHit ==
    [][ /\ ( /\ LookupStep
             /\ Requested.alleles.defined
             /\ ~alleles_ambiguous(Requested)
             /\ ~DirectMatch(Requested)
             /\ CompMatches(Requested) # <<>> )
           => /\ epc' = "yielding"
              /\ flip_strand'
              /\ hits' = [i \in 1..Len(CompMatches(Requested)) |->
                             CompMatches(Requested)[i].g]
        /\ (epc = "yielding" /\ flip_strand /\ hits' # hits)
           => /\ hits' = Tail(hits)
              /\ out' = << [variant |-> variants.val[ei],
                            genotypes |-> Head(hits).genotypes,
                            reference |-> complement_alleles(Head(hits).reference),
                            coded |-> complement_alleles(Head(hits).coded),
                            multiallelic |-> Head(hits).multiallelic] >>
        /\ (epc = "yielding" /\ flip_strand /\ epc' # epc) => hits = <<>>
      ]_vars

\* C6 witness: a record found on the complementary strand has been yielded
\* with the requested variant, and a second hit is waiting.
C6_Witness ==
    /\ epc = "yielding" /\ flip_strand /\ nqueries = 2
    /\ hits # <<>>
    /\ Len(out) = 1 /\ out[1].variant = variants.val[ei]
    /\ out[1].reference = complement_alleles(store[1].g.reference)
    /\ out[1].genotypes = store[1].g.genotypes

\* C7 (the parser being the in-memory reader): the extraction raises for no
\* requested variant that the reader holds on neither strand.
C7_MissingVariantNeverRaises ==
    (~split /\ epc = "raised" /\ exc = "TypeError")
        => \/ DirectMatch(Requested)
           \/ Requested.alleles.defined /\ CompMatches(Requested) # <<>>

\* The requested variant's alleles are exactly the pair A/T or exactly the
\* pair C/G, read off the allele tuple itself.
SelfComplementaryPair ==
    /\ Requested.alleles.defined
    /\ Len(Requested.alleles.val) = 2
    /\ \/ Range(Requested.alleles.val) = {<<"A">>, <<"T">>}
       \/ Range(Requested.alleles.val) = {<<"C">>, <<"G">>}

\* C8: for a requested variant with ambiguous alleles and no direct match,
\* the reader is queried once and there is no hit to yield.
C8_NoRetryForAmbiguous ==
    [][ (LookupStep /\ SelfComplementaryPair /\ ~DirectMatch(Requested))
            => (nqueries' = 1 /\ hits' = <<>> /\ ~flip_strand') ]_vars

\* C8 witness: an ambiguous variant absent from a reader that holds records
\* has been looked up.
C8_Witness ==
    /\ epc = "yielding" /\ store # <<>>
    /\ SelfComplementaryPair /\ ~DirectMatch(Requested)
    /\ nqueries = 1 /\ hits = <<>>

\* C9: an Extractor exists only if exactly one of names and variants was
\* given.
C9_ExactlyOneMode == epc = "ready" => (names.defined # variants.defined)

\* Every Genotypes record there is: stored, handed to the caller, or a hit
\* about to be yielded.
Records == {store[i].g : i \in DOMAIN store} \cup Range(out) \cup Range(hits)

\* C10: in every record whose variant has defined alleles, reference and
\* coded are among the variant's alleles.
C10_AllelesInVariant ==
    \A g \in Records :
        vheap[g.variant].alleles.defined =>
            /\ g.reference \in Range(vheap[g.variant].alleles.val)
            /\ g.coded \in Range(vheap[g.variant].alleles.val)

(***************************************************************************)
(* Claims on Variant.                                                      *)
(***************************************************************************)
\* Chromosome and position are the same and the chromosome is a known one.
SameKnownLocus(v, w) ==
    v.chrom # "?" /\ w.chrom # "?" /\ v.chrom = w.chrom /\ v.pos = w.pos

\* The alleles the two (specified) allele sets have in common.
SharedAlleles(v, w) == Range(v.alleles.val) \cap Range(w.alleles.val)

\* C12: v1 == v2 exactly when the locus is the same known locus and either
\* one side has unspecified alleles or the two sides share two alleles.
C12_VariantEquality ==
    veq # "unset" =>
        ( (veq = "True") <=>
            /\ SameKnownLocus(var[1], var[2])
            /\ \/ ~var[1].alleles.defined
               \/ ~var[2].alleles.defined
               \/ Cardinality(SharedAlleles(var[1], var[2])) >= 2 )

\* C12 witness: two Variants alike in every field, on the unknown
\* chromosome, have compared unequal.
C12_Witness ==
    /\ veq = "False" /\ var[1] = var[2] /\ var[1].chrom = "?"
    /\ var[1].alleles.defined /\ Len(var[1].alleles.val) = 2

\* q holds the elements of p, each as often, in any order.
IsPermutation(p, q) ==
    /\ Len(p) = Len(q)
    /\ \A x \in Range(p) :
          Cardinality({i \in DOMAIN p : p[i] = x}) = Cardinality({i \in DOMAIN q : q[i] = x})

\* The two Variants were given the same locus and the same alleles in some
\* order, and have been compared as constructed.
SameLocusSameAlleles ==
    /\ veq # "unset" /\ vops = <<>>
    /\ raw[1].chrom = raw[2].chrom /\ raw[1].pos = raw[2].pos
    /\ raw[1].alleles.defined /\ raw[2].alleles.defined
    /\ IsPermutation(raw[1].alleles.val, raw[2].alleles.val)

\* C13 as stated: two Variants given the same locus and the same alleles in
\* any order are equal.
C13_SameLocusSameAllelesEqual == SameLocusSameAlleles => veq = "True"

\* C13 amended: two Variants given the same known chromosome, the same
\* position and the same alleles in any order, at least two of the alleles
\* differing after upper-casing, are equal.
C13_KnownLocusTwoAllelesEqual ==
    ( /\ SameLocusSameAlleles
      /\ raw[1].chrom # "?"
      /\ Cardinality({Upper(a) : a \in Range(raw[1].alleles.val)}) >= 2 )
        => veq = "True"

\* C13 witness: the alleles were given in two different orders and the
\* Variants have compared equal.
C13_Witness ==
    /\ SameLocusSameAlleles /\ raw[1].alleles # raw[2].alleles
    /\ veq = "True"

\* C14: the alleles of a Variant are upper-cased and strictly increasing,
\* hence free of duplicates, also after complementing.
C14_AllelesCanonical ==
    \A i \in DOMAIN var :
        var[i].alleles.defined =>
            /\ \A k \in DOMAIN var[i].alleles.val :
                  Upper(var[i].alleles.val[k]) = var[i].alleles.val[k]
            /\ \A k, l \in DOMAIN var[i].alleles.val :
                  k < l => StrLess(var[i].alleles.val[k], var[i].alleles.val[l])

\* The complement of one base.
ComplementBase(c) ==
    CASE c = "A" -> "T" [] c = "T" -> "A" [] c = "C" -> "G" [] c = "G" -> "C"
      [] OTHER -> c

\* The allele read on the opposite strand: complemented and reversed.
RECURSIVE ReverseComplement(_)
ReverseComplement(s) ==
    IF s = <<>> THEN <<>>
    ELSE Append(ReverseComplement(Tail(s)), ComplementBase(Head(s)))

\* The first Variant as it was constructed.
Constructed == Variant(raw[1].name, raw[1].chrom, raw[1].pos, raw[1].alleles)

SameIdentity(v, w) == v.name = w.name /\ v.chrom = w.chrom /\ v.pos = w.pos

\* C17: the complementary-strand copy of v holds the reversed complements of
\* v's alleles, the copy of the copy holds v's alleles again, and both keep
\* name, chromosome and position.
C17_ComplementInvolutive ==
    /\ vops = <<"copy">> =>
          /\ Range(var[1].alleles.val) =
                {ReverseComplement(a) : a \in Range(Constructed.alleles.val)}
          /\ SameIdentity(var[1], Constructed)
    /\ vops = <<"copy", "copy">> =>
          /\ Range(var[1].alleles.val) = Range(Constructed.alleles.val)
          /\ SameIdentity(var[1], Constructed)

\* C17 witness: a Variant with a two-base allele and a one-base allele has
\* been copied to the complementary strand twice.
C17_Witness ==
    /\ vops = <<"copy", "copy">>
    /\ Range(var[1].alleles.val) = {<<"A", "G">>, <<"C">>}

(***************************************************************************)
(* Claims on Genotypes.                                                    *)
(***************************************************************************)
\* The first record as it was constructed.
ConstructedRecord ==
    Genotypes(gin[1].variant, gin[1].genotypes, gin[1].reference, gin[1].coded,
              gin[1].multiallelic)

\* C15: one flip_coded maps each dosage d to 2 - d (missing stays missing),
\* swaps reference and coded and keeps variant and multiallelic; two restore
\* the dosage array, reference and coded of the record exactly.
C15_FlipCodedTwiceRestores ==
    /\ (gops # <<>> /\ gops[Len(gops)] = "flip_coded") =>
          /\ \A i \in DOMAIN grec[1].genotypes :
                grec[1].genotypes[i] =
                    IF gprev[1].genotypes[i] = NaN THEN NaN
                    ELSE Two - gprev[1].genotypes[i]
          /\ grec[1].reference = gprev[1].coded
          /\ grec[1].coded = gprev[1].reference
          /\ grec[1].variant = gprev[1].variant
          /\ grec[1].multiallelic = gprev[1].multiallelic
    /\ gops = <<"flip_coded", "flip_coded">> => grec[1] = ConstructedRecord

\* C16: a second code_minor changes nothing; after code_minor the coded
\* frequency is at most 0.5; code_minor flips exactly when the frequency was
\* above 0.5.
C16_CodeMinorIdempotent ==
    /\ gops = <<"code_minor", "code_minor">> => grec[1] = gprev[1]
    /\ (gops # <<>> /\ gops[Len(gops)] = "code_minor" /\ Called(grec[1]) # <<>>) =>
          /\ 2 * coded_freq(grec[1]) <= One
          /\ grec[1] = IF 2 * coded_freq(gprev[1]) > One
                        THEN [gprev[1] EXCEPT
                                !.genotypes = [i \in DOMAIN gprev[1].genotypes |->
                                                  two_minus(gprev[1].genotypes[i])],
                                !.reference = gprev[1].coded,
                                !.coded = gprev[1].reference]
                        ELSE gprev[1]

\* The two dosages count as equal: both missing, or both called and equal.
SameDosage(d, e) == (d = NaN /\ e = NaN) \/ (d # NaN /\ e # NaN /\ d = e)

\* C18: g == h is False for different loci; for the same locus and the same
\* reference and coded it is the element-wise equality of the dosages,
\* missing equal to missing; for reference and coded swapped it is the
\* equality of g's dosages with 2 minus h's; otherwise it raises.
C18_GenotypesEquality ==
    geq # "unset" =>
        LET g == grec[1]
            h == grec[2]
            identical == g.reference = h.reference /\ g.coded = h.coded
            swapped == g.reference = h.coded /\ g.coded = h.reference
        IN  IF ~SameKnownLocus(g.variant, h.variant) THEN geq = "False"
            ELSE IF identical
            THEN (geq = "True") =
                   (\A i \in DOMAIN g.genotypes :
                       SameDosage(g.genotypes[i], h.genotypes[i]))
                 /\ geq \in {"True", "False"}
            ELSE IF swapped
            THEN (geq = "True") =
                   (\A i \in DOMAIN g.genotypes :
                       SameDosage(g.genotypes[i], two_minus(h.genotypes[i])))
                 /\ geq \in {"True", "False"}
            ELSE geq = "RuntimeError"

\* C18 witness: two records of one locus with reference and coded swapped
\* and a missing dosage each have compared equal.
C18_Witness ==
    /\ geq = "True"
    /\ grec[1].reference = grec[2].coded /\ grec[1].reference # grec[2].reference
    /\ \E i \in DOMAIN grec[1].genotypes : grec[1].genotypes[i] = NaN
    /\ \E i \in DOMAIN grec[1].genotypes : grec[1].genotypes[i] \notin {NaN, One}

(***************************************************************************)
(* Claims on the flat-file index.                                          *)
(***************************************************************************)
\* The byte position at which line i of the data file starts: the lengths of
\* the lines before it, each with its newline.
RECURSIVE LineStart(_)
LineStart(i) ==
    IF i = 1 THEN 0
    ELSE LineStart(i - 1) + Len(LineText(ifile.lines[i - 1])) + 1

\* The key fields of line i as they stand in the file.
KeyFields(i) ==
    <<ifile.lines[i].chrom, ifile.lines[i].name, ifile.lines[i].pos>>

\* C19: the index built over a file of N lines has exactly N seek offsets,
\* the first is 0 and offset i is the byte position at which line i starts;
\* the index read back from the file it was written to has the same offsets
\* and key columns; a line read after seeking to offset i has the
\* chromosome, name and position of line i.
C19_IndexRoundTrip ==
    built.defined =>
        LET seek == Column(built.val, COL_SEEK)
            N    == Len(ifile.lines)
        IN  /\ Len(seek) = N
            /\ seek[1].num = 0
            /\ \A i \in 1..N : seek[i].kind = "int" /\ seek[i].num = LineStart(i)
            /\ (loaded.defined /\ icall \in {"read_index", "get_index"}) =>
                   /\ loaded.val.columns = built.val.columns
                   /\ \A c \in Range(built.val.columns) :
                          Column(loaded.val, c) = Column(built.val, c)
            /\ iread.defined =>
                   SubSeq(iread.fields, 1, 3) = KeyFields(iread.row)

\* A file of several lines was indexed, the index was read back from disk
\* and the last line was read at its offset.
C19_Witness ==
    /\ built.defined /\ loaded.defined /\ icall = "read_index"
    /\ Len(ifile.lines) = MaxLines
    /\ iread.defined /\ iread.row = MaxLines

\* The file at the index path starts with the check string.
StartsWithCheckString ==
    /\ Len(ixdisk.bytes) >= Len(CHECK_STRING)
    /\ \A i \in DOMAIN CHECK_STRING : ixdisk.bytes[i] = CHECK_STRING[i]

\* The header of the table stored in the file at the index path.
StoredColumns == Split(Split(ixdisk.zdata.val, "\n")[1], ",")

\* C20: read_index (and get_index through it) on an existing file that does
\* not start with the check string raises "not a valid index file" without
\* calling zlib.decompress; get_index on a stored table lacking a required
\* column name or the seek column raises; no index is returned in either
\* case.
C20_LoadFailsFast ==
    /\ (icall \in {"read_index", "get_index"} /\ ixdisk.exists
            /\ ~StartsWithCheckString) =>
           /\ ixerr = "ValueError: not a valid index file"
           /\ ~inflated
           /\ ~loaded.defined
    /\ (icall = "get_index" /\ ixdisk.exists /\ StartsWithCheckString
            /\ Len(ixdisk.bytes) = Len(CHECK_STRING) /\ ixdisk.zdata.defined
            /\ \E c \in Range(IX_NAMES) \cup {COL_SEEK} :
                   c \notin Range(StoredColumns)) =>
           /\ ixerr \in {"ValueError: missing index columns: reindex",
                         "ValueError: invalid index: reindex"}
           /\ ~loaded.defined

\* read_index refused a file whose first bytes differ from the check string
\* in the last byte only and that holds a complete table after them.
C20_Witness ==
    /\ icall = "read_index" /\ ixdisk.exists /\ ~StartsWithCheckString
    /\ Len(ixdisk.bytes) = Len(CHECK_STRING) /\ ixdisk.zdata.defined
    /\ ixerr = "ValueError: not a valid index file"

(***************************************************************************)
(* Claims on the SplitChromosomeReader.                                    *)
(***************************************************************************)
\* C23: the constructor raises as soon as a sub-reader reports a sample list
\* that differs, in content or in order, from an earlier one, and then keeps
\* no sample list; it succeeds only when all lists are identical, and that
\* list is the composer's.
C23_SampleListsChecked ==
    comp.state # "none" =>
        LET odd == { i \in DOMAIN subs : subs[i].samples # subs[1].samples }
        IN  IF odd # {}
            THEN /\ comp.state =
                        "ValueError: Not all sub-readers have the same sample order."
                 /\ comp.asked \in odd /\ \A i \in odd : comp.asked <= i
                 /\ ~comp.samples.defined
            ELSE /\ comp.state = "built"
                 /\ \A i \in DOMAIN subs : comp.samples = Some(subs[i].samples)

\* The constructor refused two sub-readers with the same samples in
\* different orders.
C23_Witness ==
    /\ comp.state \notin {"none", "built"}
    /\ Len(subs) >= 2
    /\ subs[1].samples # subs[2].samples
    /\ Range(subs[1].samples) = Range(subs[2].samples)

\* C24: a query goes to the sub-reader registered for its chromosome and to
\* no other, and returns what that one holds in the queried range (nothing,
\* without error, when the locus is absent); with no sub-reader registered
\* for the chromosome it raises the ValueError of the composer.
C24_RoutedByChromosome ==
    sq.kind # "none" =>
        LET covered == { i \in DOMAIN subs : subs[i].key = sq.key }
            InRange(v) == v.chrom = sq.key /\ sq.lo <= v.pos /\ v.pos <= sq.hi
        IN  IF covered = {}
            THEN /\ sq.exc = "ValueError: Unable to find a reader instance"
                 /\ sq.called = {} /\ sq.result = <<>>
            ELSE /\ sq.exc = ""
                 /\ sq.called = covered
                 /\ \A i \in covered : sq.result = SelectSeq(subs[i].held, InRange)

\* A covered chromosome gave an empty result without error although another
\* sub-reader, which was not called, holds a variant in the queried range.
C24_Witness ==
    /\ sq.kind # "none" /\ sq.exc = "" /\ sq.result = <<>>
    /\ \E j \in DOMAIN subs :
           /\ j \notin sq.called
           /\ \E k \in DOMAIN subs[j].held :
                  /\ subs[j].held[k].chrom = sq.key
                  /\ sq.lo <= subs[j].held[k].pos /\ subs[j].held[k].pos <= sq.hi

(***************************************************************************)
(* Claims on the Impute2Reader.                                            *)
(***************************************************************************)
\* The lines of the file that carry a name, in file order.
Occurrences(n) ==
    SelectSeq([i \in DOMAIN ilines |-> i], LAMBDA i : ilines[i].name = n)

DuplicatedNames ==
    { ilines[i].name : i \in DOMAIN ilines } \cap
        { n \in {<<"r", "a">>, <<"r", "b">>} : Len(Occurrences(n)) > 1 }

\* A reader built over a consistent index names the occurrences of every
\* duplicated name as NameOf(n, k) says, its table of duplicates lists them,
\* and get_variant_by_name(n) returns every copy in file order.
DuplicatesNamed(NameOf(_, _)) ==
    (rdr.state = "ready" /\ idxfile = "good") =>
        \A n \in DuplicatedNames :
            LET occ == Occurrences(n)
                tab == dup_markers(ilines, rdr.index, n)
            IN  /\ \A k \in DOMAIN occ : rdr.index[occ[k]].name = NameOf(n, k)
                /\ Len(tab) = Len(occ)
                /\ (lk.kind = "get_variant_by_name" /\ lk.name = n) =>
                       /\ Len(lk.result) = Len(occ)
                       /\ \A k \in DOMAIN occ : lk.result[k].line = occ[k]

\* C21 as stated: the first occurrence keeps the name, the later ones are
\* name:dup1, name:dup2, ...
C21_FirstKeepsItsName ==
    DuplicatesNamed(LAMBDA n, k : IF k = 1 THEN n
                                  ELSE n \o <<":", "d", "u", "p">> \o FormatInt(k - 1))

\* C21 amended: every occurrence is renamed, the k-th to name:dupk.
C21_AllOccurrencesRenamed ==
    DuplicatesNamed(LAMBDA n, k : n \o <<":", "d", "u", "p">> \o FormatInt(k))

\* A duplicated name was looked up and its copies came back.
C21_Witness ==
    /\ rdr.state = "ready" /\ idxfile = "good"
    /\ lk.kind = "get_variant_by_name" /\ lk.name \in DuplicatedNames
    /\ Len(lk.result) >= 2

\* The lines of the file at the locus of a variant, in file order.
AtLocus(v) ==
    SelectSeq([i \in DOMAIN ilines |-> i], LAMBDA i :
        ilines[i].chrom = v.chrom /\ ilines[i].pos = v.pos)

\* C22: get_variant_genotypes(v) with alleles returns only records whose
\* reference and coded are among them, and nothing when no line at the
\* locus has such alleles; without alleles it returns every record at the
\* locus.
C22_AllelicSubRecords ==
    (lk.kind = "get_variant_genotypes" /\ lk.exc = "") =>
        LET v == lk.variant
            Has(i) == {ilines[i].a1, ilines[i].a2} \subseteq Range(v.alleles.val)
        IN  IF v.alleles.defined
            THEN /\ \A k \in DOMAIN lk.result : Has(lk.result[k].line)
                 /\ (\A i \in Range(AtLocus(v)) : ~Has(i)) => lk.result = <<>>
            ELSE [k \in DOMAIN lk.result |-> lk.result[k].line] = AtLocus(v)

\* Every line of the file, in file order.
AllLines == [i \in DOMAIN ilines |-> i]

C26_FileReleased == rdr.state \notin {"none", "ready"} => ~rdr.open

\* C30: on a reader with a consistent index an iteration that is over has
\* ended normally and has yielded every line once, in file order, each with
\* the name of its own row of the index, whatever lookups were made between
\* its steps.
C30_IterationUndisturbed ==
    (idxfile = "good" /\ gen.state \notin {"none", "created", "running"}) =>
        /\ gen.state = "done"
        /\ [k \in DOMAIN gen.out |-> gen.out[k].line] = AllLines
        /\ \A k \in DOMAIN gen.out : gen.out[k].name = rdr.index[k].name

(***************************************************************************)
(* Claims on the merge-join.                                               *)
(***************************************************************************)
\* The stream is in the order compare_variants expects: every record is
\* strictly before the later ones, so no locus occurs twice.
SortedStream(s) ==
    \A i, j \in 1..Len(s) : i < j => compare_variants(s[i], s[j]) = 1

\* The generator yields nothing more: it left its loop or raised.
LoopLeft == pc \in {"join_a", "join_b", "done", "raised"}

MatchingPairs ==
    { <<i, j>> \in (1..Len(sa)) \X (1..Len(sb)) : VariantEq(sa[i], sb[j]) }

\* C1: for sorted streams with each locus at most once, the yielded pairs are
\* exactly the pairs of records with equal variants, each once.
C1_ExactlyTheMatchingPairs ==
    (LoopLeft /\ SortedStream(sa) /\ SortedStream(sb)) =>
        /\ Range(yielded) = MatchingPairs
        /\ Len(yielded) = Cardinality(MatchingPairs)

\* C11: the pairs are yielded in the order of both streams: of two yielded
\* pairs the later one holds a later record of A and a later record of B, so
\* no record is in two pairs.
C11_PairsRespectBothOrders ==
    \A k, l \in 1..Len(yielded) :
        k < l => /\ yielded[k][1] < yielded[l][1]
                 /\ yielded[k][2] < yielded[l][2]

\* C11 witness: two pairs have been yielded.
C11_Witness == Len(yielded) >= 2 /\ pc = "done"

\* A worker the coordinator waits for in join() that can never end: it has
\* put everything, the pipe is full and nobody takes from it any more.
BlockedWorker(w) ==
    /\ pc \in {"join_a", "join_b", "done", "raised"}
    /\ ~wterm[w]
    /\ wput[w] = Len(stream(w)) + 1
    /\ Len(chan[w]) > PipeCap

\* C2: the generator completes (it is never left waiting in join() for a
\* worker blocked on its channel), and when it has completed, both workers
\* have terminated and been joined.
C2_CompletesWithWorkersJoined ==
    /\ \A w \in Workers : ~BlockedWorker(w)
    /\ pc \in {"done", "raised"} => (joined = Workers /\ \A w \in Workers : wterm[w])

\* The blocked-join case of C2 alone, for streams that are not empty.
C2_NoBlockedJoin ==
    (sa # <<>> /\ sb # <<>>) => \A w \in Workers : ~BlockedWorker(w)

\* C27: for streams in the order compare_variants expects, whenever the
\* coordinator is at the pair-or-skip test after its two catch-up loops,
\* neither current record is strictly ahead of the other.
C27_NeitherAheadAtDecision ==
    (pc = "match" /\ SortedStream(sa) /\ SortedStream(sb)) =>
        compare_variants(sa[cur_a], sb[cur_b]) = 0

\* C28: when a stream is empty the join raises no error, yields no pair and,
\* once complete, has joined both workers.
C28_EmptyStreamEndsQuietly ==
    (sa = <<>> \/ sb = <<>>) =>
        /\ pc # "raised"
        /\ yielded = <<>>
        /\ pc = "done" => joined = Workers

\* C29: a worker never has more items pushed and not yet taken than the
\* capacity of its channel (the pipe under the Queue is the only part of it
\* with a capacity).
C29_ChannelBounded == \A w \in Workers : Len(chan[w]) <= PipeCap

====
